---- MODULE Spec2Model ----
(***************************************************************************)
(* State-machine model of the record store and payment ledger of the      *)
(* school management system (src/htsms/storage.py, class ExcelStore).     *)
(*                                                                         *)
(* A workbook is a function from sheet names to sheets; a sheet is a      *)
(* sequence of rows (row 1 is the header row); a row is a sequence of     *)
(* cell values.  A cell value is a tagged record so that Python's None,   *)
(* strings and numbers can be told apart and compared with each other.    *)
(***************************************************************************)
EXTENDS Integers, Sequences, FiniteSets, TLC

VARIABLES disk, wb, clock, locked, last, ui

vars == <<disk, wb, clock, locked, last, ui>>

(***************************************************************************)
(* Bounds of the model.                                                    *)
(***************************************************************************)
MaxClock == 1

MaxPeople == 2

MaxPayments == 2

(***************************************************************************)
(* Cell values.                                                            *)
(***************************************************************************)
None == [k |-> "none", s |-> "", n |-> 0]

Str(x) == [k |-> "str", s |-> x, n |-> 0]

Num(x) == [k |-> "num", s |-> "", n |-> x]

STUDENTS_SHEET == "students"

TEACHERS_SHEET == "teachers"

STUDENT_PAYMENTS_SHEET == "student_payments"

TEACHER_PAYMENTS_SHEET == "teacher_payments"

ACTIVITY_SHEET == "activity_log"

\* The cache "self._wb is None" and the absent file are both the workbook
\* without any sheet: a workbook that was loaded or saved has at least one.
NoWb == << >>

Digits == <<"0", "1", "2", "3", "4", "5", "6", "7", "8", "9">>

\* _iso_now(): the clock reading formatted as an ISO-8601 string (seconds).
Iso(t) == Str("2026-01-01T00:00:0" \o Digits[t + 1])

\* The clock reading an ISO string stands for (ISO strings of one length
\* compare as their instants do).
ParseIso(v) == CHOOSE t \in 0..9 : Iso(t) = v

RECURSIVE Decimal(_)
Decimal(n) == IF n < 10 THEN Digits[n + 1] ELSE Decimal(n \div 10) \o Digits[(n % 10) + 1]

\* Python's str(v).
PyStr(v) ==
    CASE v.k = "str" -> v.s
      [] v.k = "none" -> "None"
      [] OTHER -> IF v.n < 0 THEN "-" \o Decimal(0 - v.n) ELSE Decimal(v.n)

\* Python's truth value of v ("v or default").
Truthy(v) ==
    CASE v.k = "str" -> v.s /= ""
      [] v.k = "none" -> FALSE
      [] OTHER -> v.n /= 0

\* dict.get(key, default) on a mapping whose keys are cell values or strings.
Get(d, key, default) == IF key \in DOMAIN d THEN d[key] ELSE default

(***************************************************************************)
(* Worksheet primitives (the part of openpyxl the store relies on).        *)
(***************************************************************************)
Max2(a, b) == IF a >= b THEN a ELSE b

MaxRow(ws) == Max2(1, Len(ws))

RECURSIVE WidthUpTo(_, _)
WidthUpTo(ws, r) == IF r = 0 THEN 1 ELSE Max2(Len(ws[r]), WidthUpTo(ws, r - 1))

MaxColumn(ws) == WidthUpTo(ws, Len(ws))

Cell(ws, r, c) == IF r \in 1..Len(ws) /\ c \in 1..Len(ws[r]) THEN ws[r][c] ELSE None

\* [cell.value for cell in ws[r]]
RowValues(ws, r) == [c \in 1..MaxColumn(ws) |-> Cell(ws, r, c)]

\* [ws.cell(row=r, column=c).value for c in range(1, n + 1)]
RowPrefix(ws, r, n) == [c \in 1..n |-> Cell(ws, r, c)]

\* ws.iter_rows(min_row=2, values_only=True)
DataRows(ws) == [i \in 1..(MaxRow(ws) - 1) |-> RowValues(ws, i + 1)]

\* ws.cell(row=r, column=c, value=v)
SetCell(ws, r, c, v) ==
    LET rows == [i \in 1..Max2(Len(ws), r) |-> IF i <= Len(ws) THEN ws[i] ELSE << >>]
        old  == rows[r]
        new  == [j \in 1..Max2(Len(old), c) |->
                    IF j = c THEN v ELSE IF j <= Len(old) THEN old[j] ELSE None]
    IN  [rows EXCEPT ![r] = new]

\* ws.append(values)
AppendRow(ws, values) == Append(ws, values)

\* ws.delete_rows(r, 1)
DeleteRow(ws, r) ==
    IF r \in 1..Len(ws)
    THEN [i \in 1..(Len(ws) - 1) |-> IF i < r THEN ws[i] ELSE ws[i + 1]]
    ELSE ws

\* What a cell holds after the workbook is written to the file and read
\* back: an empty string is written as an empty cell and is read as None.
SavedValue(v) == IF v = Str("") THEN None ELSE v

\* wb.save(path) followed by load_workbook(path).
SavedWorkbook(w) ==
    [sh \in DOMAIN w |-> [r \in 1..Len(w[sh]) |-> [c \in 1..Len(w[sh][r]) |-> SavedValue(w[sh][r][c])]]]

(***************************************************************************)
(* Sheet Schema Manager.                                                   *)
(***************************************************************************)
\* The header loop writing into row 2.
RECURSIVE WriteHeaders_Row2(_, _, _)
WriteHeaders_Row2(ws, headers, c) ==
    IF c > Len(headers) THEN ws
    ELSE WriteHeaders_Row2(SetCell(ws, 2, c, headers[c]), headers, c + 1)

RECURSIVE WriteHeaders(_, _, _)
WriteHeaders(ws, headers, c) ==
    IF c > Len(headers) THEN ws
    ELSE WriteHeaders(SetCell(ws, 1, c, headers[c]), headers, c + 1)

Contains(seq, v) == \E i \in 1..Len(seq) : seq[i] = v

\* The loop "for h in headers: if h not in existing: append the column".
RECURSIVE AppendMissing(_, _, _, _)
AppendMissing(ws, existing, headers, i) ==
    IF i > Len(headers) THEN ws
    ELSE IF Contains(existing, headers[i])
         THEN AppendMissing(ws, existing, headers, i + 1)
         ELSE AppendMissing(SetCell(ws, 1, Len(existing) + 1, headers[i]),
                            Append(existing, headers[i]), headers, i + 1)

\* _ensure_sheet_headers that writes the required list over a first row
\* that differs from it.
_ensure_sheet_headers_Overwrite(ws, headers) ==
    IF MaxRow(ws) < 1 \/ MaxColumn(ws) < 1
    THEN WriteHeaders(ws, headers, 1)
    ELSE LET row1_vals == RowValues(ws, 1)
         IN  IF Cell(ws, 1, 1) = None /\ \A c \in 1..Len(row1_vals) : row1_vals[c] = None
             THEN IF MaxRow(ws) >= 2 /\ RowPrefix(ws, 2, Len(headers)) = headers
                  THEN DeleteRow(ws, 1)
                  ELSE WriteHeaders(ws, headers, 1)
             ELSE IF row1_vals /= headers
                  THEN WriteHeaders(ws, headers, 1)
                  ELSE ws

_ensure_sheet_headers(ws, headers) ==
    IF MaxRow(ws) < 1 \/ MaxColumn(ws) < 1
    THEN WriteHeaders(ws, headers, 1)
    ELSE LET row1_vals == RowValues(ws, 1)
         IN  IF Cell(ws, 1, 1) = None /\ \A c \in 1..Len(row1_vals) : row1_vals[c] = None
             THEN IF MaxRow(ws) >= 2 /\ RowPrefix(ws, 2, Len(headers)) = headers
                  THEN DeleteRow(ws, 1)
                  ELSE WriteHeaders(ws, headers, 1)
             ELSE IF row1_vals /= headers
                  THEN AppendMissing(ws, row1_vals, headers, 1)
                  ELSE ws

\* The bottom-up loop of _cleanup_sheet, at row "row".
RECURSIVE CleanupFrom(_, _, _)
CleanupFrom(ws, headers, row) ==
    IF row <= 1 THEN ws
    ELSE LET vals == RowPrefix(ws, row, Len(headers))
         IN  IF vals = headers
             THEN CleanupFrom(DeleteRow(ws, row), headers, row - 1)
             ELSE IF \A c \in 1..Len(vals) : vals[c] = None \/ vals[c] = Str("")
                  THEN CleanupFrom(DeleteRow(ws, row), headers, row - 1)
                  ELSE CleanupFrom(ws, headers, row - 1)

_cleanup_sheet(ws, headers) ==
    IF MaxRow(ws) <= 1 THEN ws ELSE CleanupFrom(ws, headers, MaxRow(ws))

StrSeq(names) == [i \in 1..Len(names) |-> Str(names[i])]

StudentColumns ==
    <<"student_id", "first_name", "last_name", "age", "class", "section",
      "primary_contact", "secondary_contact", "created_at", "updated_at">>

TeacherColumns ==
    <<"teacher_id", "first_name", "last_name", "role",
      "primary_contact", "secondary_contact", "created_at", "updated_at">>

PaymentColumns(id_col) == <<id_col, "year", "month", "status", "amount", "updated_at">>

ActivityColumns == <<"timestamp", "action", "entity_type", "entity_id", "details">>

IdCol(entity) == IF entity = "student" THEN "student_id" ELSE "teacher_id"

PeopleSheet(entity) == IF entity = "student" THEN STUDENTS_SHEET ELSE TEACHERS_SHEET

PaymentSheet(entity) ==
    IF entity = "student" THEN STUDENT_PAYMENTS_SHEET ELSE TEACHER_PAYMENTS_SHEET

Entities == {"student", "teacher"}

SheetNames ==
    {STUDENTS_SHEET, TEACHERS_SHEET, STUDENT_PAYMENTS_SHEET, TEACHER_PAYMENTS_SHEET,
     ACTIVITY_SHEET}

\* The header list ensure_workbook requires of a sheet.
RequiredHeaders(sh, student_custom_fields, teacher_custom_fields) ==
    CASE sh = STUDENTS_SHEET -> StrSeq(StudentColumns \o student_custom_fields)
      [] sh = TEACHERS_SHEET -> StrSeq(TeacherColumns \o teacher_custom_fields)
      [] sh = STUDENT_PAYMENTS_SHEET -> StrSeq(PaymentColumns("student_id"))
      [] sh = TEACHER_PAYMENTS_SHEET -> StrSeq(PaymentColumns("teacher_id"))
      [] OTHER -> StrSeq(ActivityColumns)

\* The workbook ensure_workbook builds from the file's content.
EnsuredWorkbook(file, student_custom_fields, teacher_custom_fields) ==
    [sh \in SheetNames \cup DOMAIN file |->
        IF sh \in SheetNames
        THEN LET ws == IF sh \in DOMAIN file THEN file[sh] ELSE << >>
                 hs == RequiredHeaders(sh, student_custom_fields, teacher_custom_fields)
             IN  _cleanup_sheet(_ensure_sheet_headers(ws, hs), hs)
        ELSE file[sh]]

(***************************************************************************)
(* Record Store: load/save lifecycle.                                      *)
(***************************************************************************)
\* _load() finds a workbook: the cached one or the file.
CanLoad == wb /= NoWb \/ disk /= NoWb

\* _load() that reads the file on every call.
Loaded_FromFile == IF disk /= NoWb THEN disk ELSE wb

\* The workbook _load() returns (and caches).
Loaded == IF wb /= NoWb THEN wb ELSE disk

\* The file after _save(w): wb.save(path) writes the whole workbook, or
\* raises and leaves the file as it was when another program holds the file.
FileAfterSave(w) == IF locked THEN disk ELSE SavedWorkbook(w)

SaveOutcome == IF locked THEN "failed" ELSE "ok"

\* No add dialog is open.
NoDialog == << >>

\* The front-end's fields after its construction: _last_mtime is 0.0, which
\* is not the file's modification time; no dialog is open; the settings
\* hold no custom fields.  mtime_seen stands for
\* "self._last_mtime == p.stat().st_mtime".
InitUi == [mtime_seen |-> FALSE, dialog |-> NoDialog, teacher_custom_fields |-> << >>]

\* The same after _save(w): a save that succeeds gives the file a new
\* modification time.
UiAfterSave == IF locked THEN ui ELSE [ui EXCEPT !.mtime_seen = FALSE]

\* The outcome of a call: its name and arguments, the value it returned,
\* whether it called _save (and how that went) and whether it raised.
Outcome(op, args, ret, saved, raised) ==
    [op |-> op, args |-> args, ret |-> ret, saved |-> saved, raised |-> raised]

\* A call made before any file exists: _load() raises FileNotFoundError.
LoadFails(op, args) ==
    /\ ~CanLoad
    /\ last' = Outcome(op, args, None, "none", TRUE)
    /\ UNCHANGED <<disk, wb, clock, locked, ui>>

\* _sheet_to_dicts: one mapping from header value to cell value per data
\* row that is not entirely None.
RowDict(headers, r) ==
    LET n == IF Len(headers) <= Len(r) THEN Len(headers) ELSE Len(r)
    IN  [h \in {headers[i] : i \in 1..n} |->
            r[CHOOSE i \in 1..n : headers[i] = h /\ \A j \in (i + 1)..n : headers[j] /= h]]

AllNone(r) == \A c \in 1..Len(r) : r[c] = None

RECURSIVE DictsFrom(_, _, _)
DictsFrom(headers, rows, i) ==
    IF i > Len(rows) THEN << >>
    ELSE IF AllNone(rows[i])
         THEN DictsFrom(headers, rows, i + 1)
         ELSE <<RowDict(headers, rows[i])>> \o DictsFrom(headers, rows, i + 1)

_sheet_to_dicts(ws) == DictsFrom(RowValues(ws, 1), DataRows(ws), 1)

\* headers.index(v) + 1, or 0 where Python raises ValueError.
IndexOf(seq, v) ==
    IF Contains(seq, v)
    THEN CHOOSE i \in 1..Len(seq) : seq[i] = v /\ \A j \in 1..(i - 1) : seq[j] /= v
    ELSE 0

\* _find_row_by_id with the scan starting one row too low.
_find_row_by_id_from3(ws, id_header, person_id) ==
    LET id_idx == IndexOf(RowValues(ws, 1), Str(id_header))
        hits   == {row \in 3..MaxRow(ws) : Cell(ws, row, id_idx) = Str(person_id)}
    IN  IF id_idx = 0 \/ hits = {} THEN 0
        ELSE CHOOSE row \in hits : \A other \in hits : row <= other

\* _find_row_by_id: the first row below the header whose ID cell equals
\* person_id (a string), or 0 for None.
_find_row_by_id(ws, id_header, person_id) ==
    LET id_idx == IndexOf(RowValues(ws, 1), Str(id_header))
        hits   == {row \in 2..MaxRow(ws) : Cell(ws, row, id_idx) = Str(person_id)}
    IN  IF id_idx = 0 \/ hits = {} THEN 0
        ELSE CHOOSE row \in hits : \A other \in hits : row <= other

list_students(w) == _sheet_to_dicts(w[STUDENTS_SHEET])

list_teachers(w) == _sheet_to_dicts(w[TEACHERS_SHEET])

\* data.get(h, "") that never finds the key.
DataGet_Blank(data, h) == Str("")

\* data.get(h, "") for a header cell h; the keys of data are strings.
DataGet(data, h) == IF h.k = "str" /\ h.s \in DOMAIN data THEN data[h.s] ELSE Str("")

HasKey(data, h) == h.k = "str" /\ h.s \in DOMAIN data

\* The row an insert appends.
InsertValues(headers, data, now) ==
    [c \in 1..Len(headers) |->
        IF headers[c] = Str("created_at") THEN now
        ELSE IF headers[c] = Str("updated_at") THEN now
        ELSE DataGet(data, headers[c])]

\* The column loop of an update as a full overwrite: "if h in data" dropped.
UpdateCells_Overwrite(ws, headers, row, data, now, col) ==
    [ws EXCEPT ![row] =
        [c \in 1..Len(headers) |->
            IF c < col \/ headers[c] = Str("created_at") THEN Cell(ws, row, c)
            ELSE IF headers[c] = Str("updated_at") THEN now
            ELSE DataGet(data, headers[c])]]

\* The column loop of an update that stamps created_at as well.
RECURSIVE UpdateCells_Created(_, _, _, _, _, _)
UpdateCells_Created(ws, headers, row, data, now, col) ==
    IF col > Len(headers) THEN ws
    ELSE IF headers[col] \in {Str("created_at"), Str("updated_at")}
         THEN UpdateCells_Created(SetCell(ws, row, col, now), headers, row, data, now, col + 1)
         ELSE IF HasKey(data, headers[col])
              THEN UpdateCells_Created(SetCell(ws, row, col, DataGet(data, headers[col])),
                                       headers, row, data, now, col + 1)
              ELSE UpdateCells_Created(ws, headers, row, data, now, col + 1)

\* The column loop of an update, at column col.
RECURSIVE UpdateCells(_, _, _, _, _, _)
UpdateCells(ws, headers, row, data, now, col) ==
    IF col > Len(headers) THEN ws
    ELSE IF headers[col] = Str("created_at")
         THEN UpdateCells(ws, headers, row, data, now, col + 1)
         ELSE IF headers[col] = Str("updated_at")
              THEN UpdateCells(SetCell(ws, row, col, now), headers, row, data, now, col + 1)
              ELSE IF HasKey(data, headers[col])
                   THEN UpdateCells(SetCell(ws, row, col, DataGet(data, headers[col])),
                                    headers, row, data, now, col + 1)
                   ELSE UpdateCells(ws, headers, row, data, now, col + 1)

\* The sheet after the insert-or-update of upsert_student / upsert_teacher.
UpsertSheet(ws, id_header, data, now) ==
    LET headers == RowValues(ws, 1)
        row     == _find_row_by_id(ws, id_header, PyStr(Get(data, id_header, Str(""))))
    IN  IF row = 0
        THEN AppendRow(ws, InsertValues(headers, data, now))
        ELSE UpdateCells(ws, headers, row, data, now, 1)

upsert_student(w, data, now) ==
    [w EXCEPT ![STUDENTS_SHEET] = UpsertSheet(w[STUDENTS_SHEET], "student_id", data, now)]

upsert_teacher(w, data, now) ==
    [w EXCEPT ![TEACHERS_SHEET] = UpsertSheet(w[TEACHERS_SHEET], "teacher_id", data, now)]

\* delete_student removing the row below the one it found.
delete_student_NextRow(w, student_id) ==
    LET ws == w[STUDENTS_SHEET]
    IN  [w EXCEPT ![STUDENTS_SHEET] =
            DeleteRow(ws, _find_row_by_id(ws, "student_id", student_id) + 1)]

\* The workbook after delete_student / delete_teacher found the row.
delete_student(w, student_id) ==
    LET ws == w[STUDENTS_SHEET]
    IN  [w EXCEPT ![STUDENTS_SHEET] = DeleteRow(ws, _find_row_by_id(ws, "student_id", student_id))]

delete_teacher(w, teacher_id) ==
    LET ws == w[TEACHERS_SHEET]
    IN  [w EXCEPT ![TEACHERS_SHEET] = DeleteRow(ws, _find_row_by_id(ws, "teacher_id", teacher_id))]

(***************************************************************************)
(* Payment Ledger.                                                         *)
(***************************************************************************)
\* int(v) succeeds: numbers, and strings that are a decimal numeral.
CanInt(v) == v.k = "num" \/ (v.k = "str" /\ \E n \in 0..9999 : Decimal(n) = v.s)

\* int(v)
IntOf(v) == IF v.k = "num" THEN v.n ELSE CHOOSE n \in 0..9999 : Decimal(n) = v.s

\* float(v or 0)
FloatOr0(v) == IF Truthy(v) THEN IntOf(v) ELSE 0

\* s.lower(), over the status words that occur.
Lower(s) == IF s \in {"Paid", "PAID", "paid"} THEN "paid"
            ELSE IF s \in {"Pending", "PENDING", "pending"} THEN "pending"
            ELSE s

\* The search loop shared by get_payment_record and set_payment: the index
\* in rows of the first record of (person_id, year, month), 0 if there is
\* none, -1 if int() raised on the way ("and" evaluates left to right).
RECURSIVE ScanFrom(_, _, _, _, _, _)
ScanFrom(rows, id_col, person_id, year, month, i) ==
    IF i > Len(rows) THEN 0
    ELSE LET r == rows[i]
             y == Get(r, Str("year"), Num(0))
             m == Get(r, Str("month"), Num(0))
         IN  IF PyStr(Get(r, Str(id_col), Str(""))) /= person_id
             THEN ScanFrom(rows, id_col, person_id, year, month, i + 1)
             ELSE IF ~CanInt(y) THEN -1
             ELSE IF IntOf(y) /= year
             THEN ScanFrom(rows, id_col, person_id, year, month, i + 1)
             ELSE IF ~CanInt(m) THEN -1
             ELSE IF IntOf(m) /= month
             THEN ScanFrom(rows, id_col, person_id, year, month, i + 1)
             ELSE i

\* A default record that reports the month as paid.
DefaultRecord_Paid == (Str("status") :> Str("Paid")) @@ (Str("amount") :> Num(0))

\* The record get_payment_record returns when it finds none.
DefaultRecord == (Str("status") :> Str("Pending")) @@ (Str("amount") :> Num(0))

\* Where get_payment_record finds the record (see ScanFrom).
RecordIndex(w, entity, person_id, year, month) ==
    ScanFrom(_sheet_to_dicts(w[PaymentSheet(entity)]), IdCol(entity), person_id, year, month, 1)

get_payment_record(w, entity, person_id, year, month) ==
    LET rows == _sheet_to_dicts(w[PaymentSheet(entity)])
        i    == ScanFrom(rows, IdCol(entity), person_id, year, month, 1)
    IN  IF i > 0 THEN rows[i] ELSE DefaultRecord

get_payment_status(w, entity, person_id, year, month) ==
    LET rec == get_payment_record(w, entity, person_id, year, month)
        st  == Get(rec, Str("status"), Str("Pending"))
    IN  IF Truthy(st) THEN PyStr(st) ELSE "Pending"

\* set_payment's update branch without the test on the column name: the
\* amount goes into every column that is neither status nor updated_at.
PaymentCells_AllColumns(ws, headers, target_row, status, amount, now, col) ==
    [ws EXCEPT ![target_row] =
        [c \in 1..Len(headers) |->
            IF c < col THEN Cell(ws, target_row, c)
            ELSE IF headers[c] = Str("updated_at") THEN now
            ELSE IF headers[c] = Str("status") THEN Str(status)
            ELSE Num(amount)]]

\* The column loop of set_payment's update branch, at column col.
RECURSIVE PaymentCells(_, _, _, _, _, _, _)
PaymentCells(ws, headers, target_row, status, amount, now, col) ==
    IF col > Len(headers) THEN ws
    ELSE LET v == IF headers[col] = Str("updated_at") THEN now
                  ELSE IF headers[col] = Str("status") THEN Str(status)
                  ELSE Num(amount)
         IN  IF headers[col] \in {Str("updated_at"), Str("status"), Str("amount")}
             THEN PaymentCells(SetCell(ws, target_row, col, v), headers, target_row,
                               status, amount, now, col + 1)
             ELSE PaymentCells(ws, headers, target_row, status, amount, now, col + 1)

\* The row set_payment appends for a new composite key.
PaymentValues(headers, id_col, person_id, year, month, status, amount, now) ==
    LET data == [x \in {id_col, "year", "month", "status", "amount", "updated_at"} |->
                    CASE x = id_col -> Str(person_id)
                      [] x = "year" -> Num(year)
                      [] x = "month" -> Num(month)
                      [] x = "status" -> Str(status)
                      [] x = "amount" -> Num(amount)
                      [] OTHER -> now]
    IN  [c \in 1..Len(headers) |-> DataGet(data, headers[c])]

\* set_payment without the search: every call appends.
set_payment_Append(w, entity, person_id, year, month, status, amount, now) ==
    LET ws == w[PaymentSheet(entity)]
    IN  [w EXCEPT ![PaymentSheet(entity)] =
            AppendRow(ws, PaymentValues(RowValues(ws, 1), IdCol(entity), person_id, year,
                                        month, status, amount, now))]

\* The workbook after set_payment (when the search did not raise).
set_payment(w, entity, person_id, year, month, status, amount, now) ==
    LET ws      == w[PaymentSheet(entity)]
        headers == RowValues(ws, 1)
        i       == ScanFrom(_sheet_to_dicts(ws), IdCol(entity), person_id, year, month, 1)
        target_row == i + 1
    IN  [w EXCEPT ![PaymentSheet(entity)] =
            IF i = 0
            THEN AppendRow(ws, PaymentValues(headers, IdCol(entity), person_id, year, month,
                                            status, amount, now))
            ELSE PaymentCells(ws, headers, target_row, status, amount, now, 1)]

\* The loop of payment_stats over the listed people from index i on:
\* <<paid, pending>>.
RECURSIVE StatsFrom(_, _, _, _, _, _)
StatsFrom(w, entity, people, year, month, i) ==
    IF i > Len(people) THEN <<0, 0>>
    ELSE LET rest == StatsFrom(w, entity, people, year, month, i + 1)
             pid  == PyStr(Get(people[i], Str(IdCol(entity)), Str("")))
         IN  IF pid = "" THEN rest
             ELSE IF Lower(get_payment_status(w, entity, pid, year, month)) = "paid"
                  THEN <<rest[1] + 1, rest[2]>>
                  ELSE <<rest[1], rest[2] + 1>>

payment_stats(w, entity, year, month) ==
    LET people == IF entity = "student" THEN list_students(w) ELSE list_teachers(w)
        c      == StatsFrom(w, entity, people, year, month, 1)
    IN  [paid |-> c[1], pending |-> c[2], total |-> c[1] + c[2]]

list_all_payments(w, entity) == _sheet_to_dicts(w[PaymentSheet(entity)])

\* paid_lookup.get((y, m)): the last record of person_id whose year and
\* month convert to (y, m); 0 if there is none.
LookupIndex(all_payments, id_col, person_id, y, m) ==
    LET hits == {i \in 1..Len(all_payments) :
                    /\ PyStr(Get(all_payments[i], Str(id_col), Str(""))) = person_id
                    /\ CanInt(Get(all_payments[i], Str("year"), Num(0)))
                    /\ CanInt(Get(all_payments[i], Str("month"), Num(0)))
                    /\ IntOf(Get(all_payments[i], Str("year"), Num(0))) = y
                    /\ IntOf(Get(all_payments[i], Str("month"), Num(0))) = m}
    IN  IF hits = {} THEN 0 ELSE CHOOSE i \in hits : \A j \in hits : j <= i

\* The loop wrapping the month to 12 without stepping the year back.
RECURSIVE PendingLoop_SameYear(_, _, _, _, _, _, _)
PendingLoop_SameYear(all_payments, id_col, person_id, y, m, default_amount, n) ==
    IF n = 0 THEN << >>
    ELSE LET i   == LookupIndex(all_payments, id_col, person_id, y, m)
             rec == all_payments[i]
             amt == FloatOr0(Get(rec, Str("amount"), Num(0)))
             entry ==
                IF i = 0 THEN <<[year |-> y, month |-> m, amount |-> default_amount]>>
                ELSE IF Lower(PyStr(Get(rec, Str("status"), Str("")))) /= "paid"
                     THEN <<[year |-> y, month |-> m,
                             amount |-> IF amt <= 0 THEN default_amount ELSE amt]>>
                     ELSE << >>
         IN  entry \o PendingLoop_SameYear(all_payments, id_col, person_id, y,
                                           IF m - 1 < 1 THEN 12 ELSE m - 1,
                                           default_amount, n - 1)

\* The loop without the test on the status: paid months are listed too.
RECURSIVE PendingLoop_IgnoreStatus(_, _, _, _, _, _, _)
PendingLoop_IgnoreStatus(all_payments, id_col, person_id, y, m, default_amount, n) ==
    IF n = 0 THEN << >>
    ELSE LET i   == LookupIndex(all_payments, id_col, person_id, y, m)
             rec == all_payments[i]
             amt == FloatOr0(Get(rec, Str("amount"), Num(0)))
             entry ==
                IF i = 0 THEN <<[year |-> y, month |-> m, amount |-> default_amount]>>
                ELSE <<[year |-> y, month |-> m,
                        amount |-> IF amt <= 0 THEN default_amount ELSE amt]>>
             m1 == m - 1
         IN  entry \o
             (IF m1 < 1
              THEN PendingLoop_IgnoreStatus(all_payments, id_col, person_id, y - 1, 12,
                                            default_amount, n - 1)
              ELSE PendingLoop_IgnoreStatus(all_payments, id_col, person_id, y, m1,
                                            default_amount, n - 1))

\* The 24-step loop of get_pending_months with n steps left, at (y, m);
\* the list is built newest first.
RECURSIVE PendingLoop(_, _, _, _, _, _, _)
PendingLoop(all_payments, id_col, person_id, y, m, default_amount, n) ==
    IF n = 0 THEN << >>
    ELSE LET i   == LookupIndex(all_payments, id_col, person_id, y, m)
             rec == all_payments[i]
             amt == FloatOr0(Get(rec, Str("amount"), Num(0)))
             entry ==
                IF i = 0 THEN <<[year |-> y, month |-> m, amount |-> default_amount]>>
                ELSE IF Lower(PyStr(Get(rec, Str("status"), Str("")))) /= "paid"
                     THEN <<[year |-> y, month |-> m,
                             amount |-> IF amt <= 0 THEN default_amount ELSE amt]>>
                     ELSE << >>
             m1 == m - 1
         IN  entry \o
             (IF m1 < 1
              THEN PendingLoop(all_payments, id_col, person_id, y - 1, 12, default_amount, n - 1)
              ELSE PendingLoop(all_payments, id_col, person_id, y, m1, default_amount, n - 1))

\* pending.reverse()
Reverse(seq) == [i \in 1..Len(seq) |-> seq[Len(seq) + 1 - i]]

\* The number of months get_pending_months looks back.
Window == 24

get_pending_months(w, entity, person_id, up_to_year, up_to_month, default_amount) ==
    Reverse(PendingLoop(list_all_payments(w, entity), IdCol(entity), person_id,
                        up_to_year, up_to_month, default_amount, Window))

(***************************************************************************)
(* Activity Recorder.                                                      *)
(***************************************************************************)
\* The most events in the activity log.
MaxEvents == 2

\* AppEvent(timestamp, action, entity_type, entity_id, details)
AppEvent(timestamp, action, entity_type, entity_id, details) ==
    [timestamp |-> timestamp, action |-> action, entity_type |-> entity_type,
     entity_id |-> entity_id, details |-> details]

\* The row add_event appends.
EventRow(event) ==
    <<event.timestamp, Str(event.action), Str(event.entity_type), Str(event.entity_id),
      Str(event.details)>>

\* add_event putting the row right below the header.
add_event_First(w, event) ==
    [w EXCEPT ![ACTIVITY_SHEET] =
        <<w[ACTIVITY_SHEET][1], EventRow(event)>> \o Tail(w[ACTIVITY_SHEET])]

\* The workbook after add_event appended the row.
add_event(w, event) ==
    [w EXCEPT ![ACTIVITY_SHEET] = AppendRow(w[ACTIVITY_SHEET], EventRow(event))]

\* rows[i:] for an index i that may be negative.
SliceFrom(rows, i) ==
    LET start == IF i < 0 THEN Max2(Len(rows) + i, 0)
                 ELSE IF i > Len(rows) THEN Len(rows) ELSE i
    IN  SubSeq(rows, start + 1, Len(rows))

\* list_events: rows[-limit:]
list_events(w, limit) == SliceFrom(_sheet_to_dicts(w[ACTIVITY_SHEET]), 0 - limit)

(***************************************************************************)
(* Inputs of the operations.                                               *)
(***************************************************************************)
StudentIds == {"S1", "S2"}

TeacherIds == {"T1"}

\* The fields mappings passed to upsert_student: an add, a partial edit
\* that also carries keys that are no data column, and an add without ID.
StudentInputs ==
    {[student_id |-> Str(i), first_name |-> Str("Ann")] : i \in StudentIds}
    \cup {[student_id |-> Str("S1"), class |-> Str("5"),
           created_at |-> Iso(9), nickname |-> Str("A")]}
    \cup {[first_name |-> Str("Bob")]}

TeacherInputs ==
    {[teacher_id |-> Str(i), first_name |-> Str("Tom")] : i \in TeacherIds}
    \cup {[teacher_id |-> Str(i), role |-> Str("Math")] : i \in TeacherIds}

\* The settings' custom field lists handed to ensure_workbook.
StudentCustomFields == << >>

TeacherCustomFields == << >>

\* The composite keys (entity, person ID, year, month) payments are set
\* for: two periods of one student, another student and a teacher.
PaymentKeys ==
    {<<"student", "S1", 2025, 12>>, <<"student", "S1", 2026, 1>>,
     <<"student", "S2", 2026, 1>>, <<"teacher", "T1", 2026, 1>>}

\* The (status, amount) pairs the payment dialog hands to set_payment.
PaymentInputs == {<<"Paid", 500>>, <<"Pending", 500>>, <<"Pending", 0>>}

\* The composite keys the payment page looks up.
QueryKeys == {<<"student", "S1", 2026, 1>>, <<"teacher", "T1", 2026, 1>>}

\* The periods the dashboard shows statistics for.
StatPeriods == {<<2026, 1>>}

\* The arguments of get_pending_months: the person, the last month of the
\* window and the default amount from the settings.
PendingPersons == {<<"student", "S1">>, <<"teacher", "T1">>}

Years == {2025, 2026}

Months == 1..12

DefaultAmounts == {100, 250}

(***************************************************************************)
(* The operations of the store.                                            *)
(***************************************************************************)
Init ==
    /\ disk = NoWb
    /\ wb = NoWb
    /\ clock = 0
    /\ locked = FALSE
    /\ last = Outcome("init", << >>, None, "none", FALSE)
    /\ ui = InitUi

\* Time passes between two calls.
Tick ==
    /\ clock < MaxClock
    /\ clock' = clock + 1
    /\ last' = Outcome("tick", << >>, None, "none", FALSE)
    /\ UNCHANGED <<disk, wb, locked, ui>>

\* ensure_workbook: builds the workbook from the file (never from the
\* cache), saves it and caches it.
EnsureWorkbookWith(student_custom_fields, teacher_custom_fields) ==
    LET w1 == EnsuredWorkbook(disk, student_custom_fields, teacher_custom_fields)
    IN  /\ disk' = FileAfterSave(w1)
        /\ wb' = IF locked THEN wb ELSE w1
        /\ last' = Outcome("ensure_workbook", <<student_custom_fields, teacher_custom_fields>>,
                           None, SaveOutcome, locked)
        /\ ui' = UiAfterSave
        /\ UNCHANGED <<clock, locked>>

\* ensure_workbook as the front-ends call it at start-up, with the lists
\* of the settings.
EnsureWorkbook == EnsureWorkbookWith(StudentCustomFields, TeacherCustomFields)

\* invalidate_cache that leaves the cached workbook in place.
InvalidateCache_Keep ==
    /\ wb' = wb
    /\ last' = Outcome("invalidate_cache", << >>, None, "none", FALSE)
    /\ UNCHANGED <<disk, clock, locked, ui>>

InvalidateCache ==
    /\ wb' = NoWb
    /\ last' = Outcome("invalidate_cache", << >>, None, "none", FALSE)
    /\ UNCHANGED <<disk, clock, locked, ui>>

\* A mutating call that swallows the exception of _save.
Mutate_Swallow(op, args, w1, ret) ==
    /\ wb' = w1
    /\ disk' = FileAfterSave(w1)
    /\ last' = Outcome(op, args, ret, SaveOutcome, FALSE)
    /\ ui' = UiAfterSave
    /\ UNCHANGED <<clock, locked>>

\* A mutating call that reaches _save: the cached workbook object has been
\* changed in place to w1 whether or not the save succeeds.
Mutate(op, args, w1, ret) ==
    /\ wb' = w1
    /\ disk' = FileAfterSave(w1)
    /\ last' = Outcome(op, args, IF locked THEN None ELSE ret, SaveOutcome, locked)
    /\ ui' = UiAfterSave
    /\ UNCHANGED <<clock, locked>>

\* A call that only reads: _load() caches the workbook.
Query(op, args, ret) ==
    /\ wb' = Loaded
    /\ last' = Outcome(op, args, ret, "none", FALSE)
    /\ UNCHANGED <<disk, clock, locked, ui>>

\* A call that raises after _load() and before any change.
Raise(op, args) ==
    /\ wb' = Loaded
    /\ last' = Outcome(op, args, None, "none", TRUE)
    /\ UNCHANGED <<disk, clock, locked, ui>>

DataRowCount(w, sh) == IF sh \in DOMAIN w THEN Len(w[sh]) - 1 ELSE 0

\* The number of rows below the headers of the two payment sheets.
PaymentCount(w) ==
    DataRowCount(w, STUDENT_PAYMENTS_SHEET) + DataRowCount(w, TEACHER_PAYMENTS_SHEET)

\* The number of rows below the headers of the Students and Teachers sheets.
PeopleCount(w) == DataRowCount(w, STUDENTS_SHEET) + DataRowCount(w, TEACHERS_SHEET)

UpsertStudent ==
    \E data \in StudentInputs :
        IF ~CanLoad THEN LoadFails("upsert_student", <<data>>)
        ELSE LET w1 == upsert_student(Loaded, data, Iso(clock))
             IN  /\ PeopleCount(w1) <= MaxPeople
                 /\ Mutate("upsert_student", <<data>>, w1, None)

\* upsert_teacher, called with a mapping of inputs.
UpsertTeacherOf(inputs) ==
    \E data \in inputs :
        IF ~CanLoad THEN LoadFails("upsert_teacher", <<data>>)
        ELSE LET w1 == upsert_teacher(Loaded, data, Iso(clock))
             IN  /\ PeopleCount(w1) <= MaxPeople
                 /\ Mutate("upsert_teacher", <<data>>, w1, None)

UpsertTeacher == UpsertTeacherOf(TeacherInputs)

\* delete_student, called with an ID of ids.
DeleteStudentOf(ids) ==
    \E student_id \in ids :
        IF ~CanLoad THEN LoadFails("delete_student", <<student_id>>)
        ELSE IF _find_row_by_id(Loaded[STUDENTS_SHEET], "student_id", student_id) = 0
             THEN Query("delete_student", <<student_id>>, FALSE)
             ELSE Mutate("delete_student", <<student_id>>,
                         delete_student(Loaded, student_id), TRUE)

DeleteStudent == DeleteStudentOf(StudentIds \cup {""})

DeleteTeacher ==
    \E teacher_id \in TeacherIds \cup {""} :
        IF ~CanLoad THEN LoadFails("delete_teacher", <<teacher_id>>)
        ELSE IF _find_row_by_id(Loaded[TEACHERS_SHEET], "teacher_id", teacher_id) = 0
             THEN Query("delete_teacher", <<teacher_id>>, FALSE)
             ELSE Mutate("delete_teacher", <<teacher_id>>,
                         delete_teacher(Loaded, teacher_id), TRUE)

ListStudents ==
    IF ~CanLoad THEN LoadFails("list_students", << >>)
    ELSE Query("list_students", << >>, list_students(Loaded))

ListTeachers ==
    IF ~CanLoad THEN LoadFails("list_teachers", << >>)
    ELSE Query("list_teachers", << >>, list_teachers(Loaded))

\* set_payment, called for a key of keys with a (status, amount) of inputs.
SetPaymentOf(keys, inputs) ==
    \E k \in keys, sa \in inputs :
        LET args == <<k[1], k[2], k[3], k[4], sa[1], sa[2]>>
        IN  IF ~CanLoad THEN LoadFails("set_payment", args)
            ELSE IF RecordIndex(Loaded, k[1], k[2], k[3], k[4]) < 0
                 THEN Raise("set_payment", args)
                 ELSE LET w1 == set_payment(Loaded, k[1], k[2], k[3], k[4],
                                            sa[1], sa[2], Iso(clock))
                      IN  /\ PaymentCount(w1) <= MaxPayments
                          /\ Mutate("set_payment", args, w1, None)

SetPayment == SetPaymentOf(PaymentKeys, PaymentInputs)

GetPaymentRecord ==
    \E k \in QueryKeys :
        IF ~CanLoad THEN LoadFails("get_payment_record", k)
        ELSE IF RecordIndex(Loaded, k[1], k[2], k[3], k[4]) < 0
             THEN Raise("get_payment_record", k)
             ELSE Query("get_payment_record", k,
                        get_payment_record(Loaded, k[1], k[2], k[3], k[4]))

GetPaymentStatus ==
    \E k \in QueryKeys :
        IF ~CanLoad THEN LoadFails("get_payment_status", k)
        ELSE IF RecordIndex(Loaded, k[1], k[2], k[3], k[4]) < 0
             THEN Raise("get_payment_status", k)
             ELSE Query("get_payment_status", k,
                        get_payment_status(Loaded, k[1], k[2], k[3], k[4]))

PaymentStats ==
    \E entity \in Entities, p \in StatPeriods :
        LET args == <<entity, p[1], p[2]>>
        IN  IF ~CanLoad THEN LoadFails("payment_stats", args)
            ELSE Query("payment_stats", args, payment_stats(Loaded, entity, p[1], p[2]))

GetPendingMonths ==
    \E ep \in PendingPersons, y \in Years, m \in Months, d \in DefaultAmounts :
        LET args == <<ep[1], ep[2], y, m, d>>
        IN  IF ~CanLoad THEN LoadFails("get_pending_months", args)
            ELSE Query("get_pending_months", args,
                       get_pending_months(Loaded, ep[1], ep[2], y, m, d))

\* The events the front-ends emit (the timestamp is taken when the event
\* is made): one with details and one without.
EventInputs ==
    {AppEvent(Iso(clock), "add_teacher", "teacher", "T1", "Tom"),
     AppEvent(Iso(clock), "delete_teacher", "teacher", "T1", "")}

\* The limits list_events is called with; 500 is the front-ends' limit.
Limits == 0..MaxEvents \cup {500}

\* add_event, called with an event of events.
AddEventOf(events) ==
    \E event \in events :
        IF ~CanLoad THEN LoadFails("add_event", <<event>>)
        ELSE LET w1 == add_event(Loaded, event)
             IN  /\ DataRowCount(w1, ACTIVITY_SHEET) <= MaxEvents
                 /\ Mutate("add_event", <<event>>, w1, None)

AddEvent == AddEventOf(EventInputs)

\* add_event for the event of adding the one teacher.
AddTeacherEvent == AddEventOf({AppEvent(Iso(clock), "add_teacher", "teacher", "T1", "Tom")})

ListEvents ==
    \E limit \in Limits :
        IF ~CanLoad THEN LoadFails("list_events", <<limit>>)
        ELSE Query("list_events", <<limit>>, list_events(Loaded, limit))

\* set_payment for the one teacher.
SetTeacherPayment ==
    SetPaymentOf({<<"teacher", "T1", 2026, 1>>}, {<<"Paid", 500>>, <<"Pending", 500>>})

\* The store's operations on the Students and Teachers tables, all made
\* within one second.
Next ==
    \/ EnsureWorkbook
    \/ InvalidateCache
    \/ UpsertStudent
    \/ UpsertTeacher
    \/ DeleteStudent
    \/ DeleteTeacher
    \/ ListStudents
    \/ ListTeachers

Spec == Init /\ [][Next]_vars

\* The Teachers table while time passes.
NextClock ==
    \/ EnsureWorkbook
    \/ InvalidateCache
    \/ Tick
    \/ UpsertTeacher
    \/ DeleteTeacher
    \/ ListTeachers

SpecClock == Init /\ [][NextClock]_vars

\* The workbook ensure_workbook builds when there is no file.
FreshWorkbook == EnsuredWorkbook(NoWb, StudentCustomFields, TeacherCustomFields)

\* A workbook the people operations leave behind (cached, not yet
\* reloaded): a student, a teacher and a student row added without ID.
PeopleSetup ==
    upsert_student(
        upsert_teacher(
            upsert_student(FreshWorkbook,
                           [student_id |-> Str("S1"), first_name |-> Str("Ann")], Iso(0)),
            [teacher_id |-> Str("T1"), first_name |-> Str("Tom")], Iso(0)),
        [first_name |-> Str("Bob")], Iso(0))

InitLedger ==
    /\ wb = PeopleSetup
    /\ disk = SavedWorkbook(wb)
    /\ clock = 0
    /\ locked = FALSE
    /\ last = Outcome("init", << >>, None, "none", FALSE)
    /\ ui = InitUi

\* The payment ledger over a populated workbook.
NextLedger ==
    \/ InvalidateCache
    \/ SetPayment
    \/ GetPaymentRecord
    \/ GetPaymentStatus
    \/ PaymentStats

SpecLedger == InitLedger /\ [][NextLedger]_vars

\* Workbooks the payment operations leave behind: no payment yet; one
\* paid month of S1; and an unpaid month of S1 and of T1 besides.
PendingSetups ==
    LET p0 == PeopleSetup
        p1 == set_payment(p0, "student", "S1", 2026, 1, "Paid", 500, Iso(0))
        p2 == set_payment(p1, "student", "S1", 2025, 12, "Pending", 0, Iso(0))
        p3 == set_payment(p2, "teacher", "T1", 2026, 1, "Pending", 500, Iso(0))
    IN  {p0, p1, p3}

InitPending ==
    /\ wb \in PendingSetups
    /\ disk = SavedWorkbook(wb)
    /\ clock = 0
    /\ locked = FALSE
    /\ last = Outcome("init", << >>, None, "none", FALSE)
    /\ ui = InitUi

\* The arrears query, applied to each workbook and each argument.
NextPending ==
    \/ InvalidateCache
    \/ GetPendingMonths

SpecPending == InitPending /\ [][NextPending]_vars

\* Another program (a spreadsheet editor) opens the file and holds it:
\* wb.save raises until the program lets go of it.
Lock ==
    /\ ~locked
    /\ locked' = TRUE
    /\ last' = Outcome("lock", << >>, None, "none", FALSE)
    /\ UNCHANGED <<disk, wb, clock, ui>>

Unlock ==
    /\ locked
    /\ locked' = FALSE
    /\ last' = Outcome("unlock", << >>, None, "none", FALSE)
    /\ UNCHANGED <<disk, wb, clock, ui>>

\* What another program can leave in the file when it saves it: a teacher
\* row typed into the empty Teachers sheet, a changed first name or a
\* removed row of the first teacher, a payment row typed into the empty
\* teacher payment sheet.
ExternalEdits(file) ==
    LET teachers == file[TEACHERS_SHEET]
        payments == file[TEACHER_PAYMENTS_SHEET]
    IN  (IF Len(teachers) = 1
         THEN {[file EXCEPT ![TEACHERS_SHEET] =
                   AppendRow(teachers, <<Str("T1"), Str("Eve"), None, None, None, None,
                                         None, None>>)]}
         ELSE {[file EXCEPT ![TEACHERS_SHEET] = SetCell(teachers, 2, 2, Str("Eve"))],
               [file EXCEPT ![TEACHERS_SHEET] = DeleteRow(teachers, 2)]})
        \cup
        (IF Len(payments) = 1
         THEN {[file EXCEPT ![TEACHER_PAYMENTS_SHEET] =
                   AppendRow(payments, <<Str("T1"), Num(2026), Num(1), Str("Paid"), Num(900),
                                         None>>)]}
         ELSE {})

\* Another program writes the file while the store holds its cached copy.
ExternalEdit ==
    /\ disk /= NoWb
    /\ \E file \in ExternalEdits(disk) :
           /\ file /= disk
           /\ disk' = file
    /\ last' = Outcome("external_edit", << >>, None, "none", FALSE)
    /\ ui' = [ui EXCEPT !.mtime_seen = FALSE]
    /\ UNCHANGED <<wb, clock, locked>>

\* The store right after ensure_workbook made the file.
InitLog ==
    /\ wb = FreshWorkbook
    /\ disk = SavedWorkbook(wb)
    /\ clock = 0
    /\ locked = FALSE
    /\ last = Outcome("init", << >>, None, "none", FALSE)
    /\ ui = InitUi

\* The activity log next to the other operations of the store.
NextLog ==
    \/ InvalidateCache
    \/ AddEvent
    \/ ListEvents
    \/ UpsertTeacher
    \/ DeleteTeacher
    \/ ListTeachers
    \/ SetTeacherPayment
    \/ GetPaymentStatus

SpecLog == InitLog /\ [][NextLog]_vars

\* The mutating operations while the file is at times held by another
\* program.
NextFail ==
    \/ Lock
    \/ Unlock
    \/ UpsertTeacher
    \/ DeleteTeacher
    \/ ListTeachers
    \/ SetTeacherPayment
    \/ AddTeacherEvent

SpecFail == InitLog /\ [][NextFail]_vars

\* The store while another program edits the file.
NextExternal ==
    \/ ExternalEdit
    \/ InvalidateCache
    \/ UpsertTeacher
    \/ ListTeachers
    \/ ListStudents
    \/ SetTeacherPayment
    \/ GetPaymentRecord
    \/ AddTeacherEvent
    \/ ListEvents

SpecExternal == InitLog /\ [][NextExternal]_vars

(***************************************************************************)
(* Schema repair: ensure_workbook applied to files another program or an   *)
(* earlier version left behind.                                            *)
(***************************************************************************)
\* The custom field lists of the settings: none, one field, and a field
\* named like a built-in column of the Teachers sheet.
CustomFieldLists == {<< >>, <<"hobby">>, <<"role">>}

TeacherHeader == StrSeq(TeacherColumns)

BlankRow == [c \in 1..Len(TeacherHeader) |-> None]

\* A teacher row as upsert_teacher leaves it in the file.
TeacherRow(teacher_id, first_name) ==
    <<Str(teacher_id), Str(first_name), None, None, None, None, Iso(0), Iso(0)>>

\* The states of a Teachers sheet found in a file: no rows, valid, header
\* one row too low, blank first row above data, partial header, data wider
\* than a partial header, columns in another order, first header cell
\* blank, duplicated header rows and blank rows (adjacent ones too), a
\* trailing blank row, a header that holds a custom field already, such a
\* header one row too low, a row that holds nothing but a cell to the right
\* of the header.
FoundSheets ==
    {<< >>,
     <<TeacherHeader, TeacherRow("T1", "Tom")>>,
     <<BlankRow, TeacherHeader, TeacherRow("T1", "Tom")>>,
     <<BlankRow, TeacherRow("T1", "Tom")>>,
     <<SubSeq(TeacherHeader, 1, 2), <<Str("T1"), Str("Tom")>>>>,
     <<SubSeq(TeacherHeader, 1, 2), <<Str("T1"), Str("Tom"), Str("x")>>>>,
     <<<<Str("first_name"), Str("teacher_id")>>, <<Str("Tom"), Str("T1")>>>>,
     <<<<None, Str("first_name")>>, <<Str("T1"), Str("Tom")>>>>,
     <<TeacherHeader, TeacherHeader, TeacherRow("T1", "Tom"), BlankRow, BlankRow,
       TeacherHeader, TeacherHeader, TeacherRow("T2", "Tia")>>,
     <<TeacherHeader, TeacherRow("T1", "Tom"), BlankRow>>,
     <<TeacherHeader \o <<Str("hobby")>>, TeacherRow("T1", "Tom") \o <<Str("chess")>>>>,
     <<BlankRow, TeacherHeader \o <<Str("hobby")>>, TeacherRow("T1", "Tom") \o <<Str("chess")>>>>,
     <<TeacherHeader, TeacherRow("T1", "Tom"), BlankRow \o <<Str("note")>>>>}

\* The files ensure_workbook finds: none, a file that holds the Teachers
\* sheet only (the other sheets are missing), a file whose other sheets are
\* valid.
FoundFiles ==
    {NoWb}
    \cup {[sh \in {TEACHERS_SHEET} |-> ws] : ws \in FoundSheets}
    \cup {[SavedWorkbook(FreshWorkbook) EXCEPT ![TEACHERS_SHEET] = ws] : ws \in FoundSheets}

InitSchema ==
    /\ disk \in FoundFiles
    /\ wb = NoWb
    /\ clock = 0
    /\ locked = FALSE
    /\ last = Outcome("init", << >>, None, "none", FALSE)
    /\ ui = InitUi

\* ensure_workbook called with the custom field lists of the settings.
EnsureCustom ==
    \E teacher_custom_fields \in CustomFieldLists :
        EnsureWorkbookWith(StudentCustomFields, teacher_custom_fields)

NextSchema ==
    \/ EnsureCustom
    \/ InvalidateCache
    \/ UpsertTeacher
    \/ ListTeachers

SpecSchema == InitSchema /\ [][NextSchema]_vars

(***************************************************************************)
(* ID Generator.  An ID is a sequence of characters here, so that the      *)
(* prefix test, the digit filter and the number format work on characters. *)
(***************************************************************************)
\* The most IDs in the list handed to _next_id.
MaxIds == 2

\* ch.isdigit() / \d, over the characters that occur.
IsDigit(ch) == \E d \in 1..10 : Digits[d] = ch

DigitValue(ch) == (CHOOSE d \in 1..10 : Digits[d] = ch) - 1

\* int(digits) for a non-empty sequence of digit characters.
RECURSIVE IntOfDigits(_)
IntOfDigits(digits) ==
    IF Len(digits) = 0 THEN 0
    ELSE 10 * IntOfDigits(SubSeq(digits, 1, Len(digits) - 1)) + DigitValue(digits[Len(digits)])

\* The decimal digits of n as characters.
RECURSIVE DecimalChars(_)
DecimalChars(n) ==
    IF n < 10 THEN <<Digits[n + 1]>> ELSE DecimalChars(n \div 10) \o <<Digits[(n % 10) + 1]>>

\* f"{n:04d}"
RECURSIVE PadTo4(_)
PadTo4(chars) == IF Len(chars) >= 4 THEN chars ELSE PadTo4(<<"0">> \o chars)

Format04d(n) == PadTo4(DecimalChars(n))

\* eid.startswith(prefix)
StartsWith(eid, prefix) ==
    Len(eid) >= Len(prefix) /\ SubSeq(eid, 1, Len(prefix)) = prefix

\* eid[len(prefix):]
TailOf(eid, prefix) == SubSeq(eid, Len(prefix) + 1, Len(eid))

\* re.match(r"0*(\d+)$", tail): the whole tail is one or more digits.
MatchesDigits(tail) == Len(tail) > 0 /\ \A i \in 1..Len(tail) : IsDigit(tail[i])

\* "".join(ch for ch in tail if ch.isdigit())
DigitsIn(tail) == SelectSeq(tail, IsDigit)

\* The loop of the tk _next_id from index i on, with max_n so far.
RECURSIVE TkMax(_, _, _, _)
TkMax(prefix, existing_ids, i, max_n) ==
    IF i > Len(existing_ids) THEN max_n
    ELSE LET eid  == existing_ids[i]
             tail == TailOf(eid, prefix)
         IN  IF StartsWith(eid, prefix) /\ MatchesDigits(tail)
             THEN TkMax(prefix, existing_ids, i + 1, Max2(max_n, IntOfDigits(tail)))
             ELSE TkMax(prefix, existing_ids, i + 1, max_n)

\* The loop of the Qt and wx _next_id from index i on, with max_n so far.
RECURSIVE QtMax(_, _, _, _)
QtMax(prefix, existing_ids, i, max_n) ==
    IF i > Len(existing_ids) THEN max_n
    ELSE LET eid    == existing_ids[i]
             digits == DigitsIn(TailOf(eid, prefix))
         IN  IF StartsWith(eid, prefix) /\ Len(digits) > 0
             THEN QtMax(prefix, existing_ids, i + 1, Max2(max_n, IntOfDigits(digits)))
             ELSE QtMax(prefix, existing_ids, i + 1, max_n)

\* The tk _next_id returning the greatest number itself.
tk_next_id_NoIncrement(prefix, existing_ids) ==
    prefix \o Format04d(TkMax(prefix, existing_ids, 1, 0))

tk_next_id(prefix, existing_ids) == prefix \o Format04d(TkMax(prefix, existing_ids, 1, 0) + 1)

qt_next_id(prefix, existing_ids) == prefix \o Format04d(QtMax(prefix, existing_ids, 1, 0) + 1)

wx_next_id(prefix, existing_ids) == prefix \o Format04d(QtMax(prefix, existing_ids, 1, 0) + 1)

\* The ID prefixes of the settings.
Prefixes == {<<"S", "-">>, <<"T", "-">>}

\* The tails of the IDs found in a table: well-formed numbers, a number
\* that fills four digits, letters, digits mixed with letters, nothing.
IdTails ==
    {<<"0", "0", "0", "1">>, <<"0", "0", "0", "3">>, <<"9", "9", "9", "9">>,
     <<"x", "y", "z">>, <<"1", "2", "a">>, <<"1", "a", "2">>, <<"x", "7">>, << >>}

IdPool == {<<"S", "-">> \o t : t \in IdTails} \cup {<<"T", "-", "0", "0", "0", "5">>}

\* The lists of existing IDs: every list of at most MaxIds IDs of the pool.
IdLists == UNION {[1..n -> IdPool] : n \in 0..MaxIds}

\* The front-ends compute the next ID from a list of existing IDs.  The
\* computation neither reads nor changes the store, so the calls made from
\* the initial state show every call.
TkNextId ==
    \E prefix \in Prefixes, existing_ids \in IdLists :
        /\ last.op = "init"
        /\ last' = Outcome("tk_next_id", <<prefix, existing_ids>>,
                           tk_next_id(prefix, existing_ids), "none", FALSE)
        /\ UNCHANGED <<disk, wb, clock, locked, ui>>

QtNextId ==
    \E prefix \in Prefixes, existing_ids \in IdLists :
        /\ last.op = "init"
        /\ last' = Outcome("qt_next_id", <<prefix, existing_ids>>,
                           qt_next_id(prefix, existing_ids), "none", FALSE)
        /\ UNCHANGED <<disk, wb, clock, locked, ui>>

WxNextId ==
    \E prefix \in Prefixes, existing_ids \in IdLists :
        /\ last.op = "init"
        /\ last' = Outcome("wx_next_id", <<prefix, existing_ids>>,
                           wx_next_id(prefix, existing_ids), "none", FALSE)
        /\ UNCHANGED <<disk, wb, clock, locked, ui>>

NextIds ==
    \/ TkNextId
    \/ QtNextId
    \/ WxNextId

SpecIds == Init /\ [][NextIds]_vars

(***************************************************************************)
(* Front-ends (tk app.py, Qt qt_app.py, wx wx_app.py): the add-student     *)
(* handlers, the Qt timer and the save-settings handlers.                  *)
(***************************************************************************)
\* The highest number an ID of the add flow carries.
MaxSerial == 3

\* settings.student_id_prefix
student_id_prefix == <<"S", "-">>

\* The string a sequence of characters spells.
RECURSIVE Text(_)
Text(chars) == IF Len(chars) = 0 THEN "" ELSE chars[1] \o Text(Tail(chars))

\* The IDs of the add flow, and what str() makes of an empty ID cell.
FlowIds ==
    {student_id_prefix \o Format04d(n) : n \in 1..MaxSerial}
    \cup {<< >>, <<"N", "o", "n", "e">>}

\* The characters of the string s.
CharsOf(s) == CHOOSE chars \in FlowIds : Text(chars) = s

\* existing = [str(s.get("student_id", "")) for s in self.store.list_students()]
\* in tk and wx; Qt has str(s.get("student_id", "") or "").
ExistingIds(w, or_blank) ==
    LET students == list_students(w)
    IN  [i \in 1..Len(students) |->
            LET v == Get(students[i], Str("student_id"), Str(""))
            IN  CharsOf(IF or_blank /\ ~Truthy(v) THEN "" ELSE PyStr(v))]

\* What the add dialog returns for the ID it holds when the user types a
\* first name: the tk dialog returns its entries, the Qt and wx dialogs
\* add the age.
DialogData(student_id, with_age) ==
    LET entries == [student_id |-> Str(Text(student_id)), first_name |-> Str("Ann"),
                    last_name |-> Str(""), class |-> Str(""), section |-> Str(""),
                    primary_contact |-> Str(""), secondary_contact |-> Str("")]
    IN  IF with_age THEN entries @@ [age |-> Str("")] ELSE entries

\* How a handler ended: whether its except branch wrote to the error log
\* and whether it showed the error to the user.
Handled(error_logged, error_shown) ==
    [error_logged |-> error_logged, error_shown |-> error_shown]

\* The part of add_student after the dialog returned data: upsert_student,
\* _emit and the refresh (the Qt refresh follows invalidate_cache, so it
\* loads the file); the except branch logs, and shows the error where the
\* front-end does.
AddStudentDone(op, data, event_id, details, shows_error, reloads) ==
    LET w1 == upsert_student(Loaded, data, Iso(clock))
        w2 == add_event(w1, AppEvent(Iso(clock), "add_student", "student", event_id, details))
    IN  /\ PeopleCount(w1) <= MaxPeople
        /\ DataRowCount(w2, ACTIVITY_SHEET) <= MaxEvents
        /\ IF locked
           THEN /\ wb' = w1
                /\ disk' = disk
                /\ ui' = [ui EXCEPT !.dialog = NoDialog]
                /\ last' = Outcome(op, <<data>>, Handled(TRUE, shows_error), "failed", FALSE)
           ELSE /\ disk' = SavedWorkbook(w2)
                /\ wb' = IF reloads THEN SavedWorkbook(w2) ELSE w2
                /\ ui' = [ui EXCEPT !.dialog = NoDialog, !.mtime_seen = FALSE]
                /\ last' = Outcome(op, <<data>>, Handled(FALSE, FALSE), "ok", FALSE)
        /\ UNCHANGED <<clock, locked>>

\* tk add_student: the dialog shows the generated ID in an entry the user
\* can overwrite, here with the ID of a student in the list.
TkAddStudent ==
    /\ CanLoad
    /\ ui.dialog = NoDialog
    /\ LET existing == ExistingIds(Loaded, FALSE)
           sid      == tk_next_id(student_id_prefix, existing)
       IN  /\ sid \in FlowIds
           /\ \E entered \in {sid} \cup {existing[i] : i \in 1..Len(existing)} :
                  AddStudentDone("tk_add_student", DialogData(entered, FALSE), Text(entered),
                                 "Ann ", FALSE, FALSE)

\* wx add_student: the dialog shows the generated ID as a label.
WxAddStudent ==
    /\ CanLoad
    /\ ui.dialog = NoDialog
    /\ LET sid == wx_next_id(student_id_prefix, ExistingIds(Loaded, FALSE))
       IN  /\ sid \in FlowIds
           /\ AddStudentDone("wx_add_student", DialogData(sid, TRUE), Text(sid), "Ann",
                             FALSE, FALSE)

\* Qt add_student up to dlg.exec(): the ID is generated from the list and
\* the modal dialog opens; the timer keeps firing while it is open.
QtAddStudentOpen ==
    /\ CanLoad
    /\ ui.dialog = NoDialog
    /\ LET sid == qt_next_id(student_id_prefix, ExistingIds(Loaded, TRUE))
       IN  /\ sid \in FlowIds
           /\ wb' = Loaded
           /\ ui' = [ui EXCEPT !.dialog = sid]
           /\ last' = Outcome("qt_add_student_open", << >>, sid, "none", FALSE)
    /\ UNCHANGED <<disk, clock, locked>>

\* Qt add_student from the accepted dialog on.
QtAddStudentAccept ==
    /\ CanLoad
    /\ ui.dialog /= NoDialog
    /\ AddStudentDone("qt_add_student", DialogData(ui.dialog, TRUE), Text(ui.dialog), "Ann",
                      TRUE, TRUE)

\* _tick that reloads without recording the modification time it saw.
QtTick_NoRecord ==
    /\ IF disk /= NoWb /\ ~ui.mtime_seen
       THEN /\ ui' = ui
            /\ wb' = disk
            /\ last' = Outcome("qt_tick", << >>, TRUE, "none", FALSE)
       ELSE /\ last' = Outcome("qt_tick", << >>, FALSE, "none", FALSE)
            /\ UNCHANGED <<wb, ui>>
    /\ UNCHANGED <<disk, clock, locked>>

\* Qt _tick: when the file is there and its modification time is not the
\* one seen last, the time is recorded, the cache dropped and everything
\* refreshed (the refresh loads the file); else nothing happens.
QtTick ==
    /\ IF disk /= NoWb /\ ~ui.mtime_seen
       THEN /\ ui' = [ui EXCEPT !.mtime_seen = TRUE]
            /\ wb' = disk
            /\ last' = Outcome("qt_tick", << >>, TRUE, "none", FALSE)
       ELSE /\ last' = Outcome("qt_tick", << >>, FALSE, "none", FALSE)
            /\ UNCHANGED <<wb, ui>>
    /\ UNCHANGED <<disk, clock, locked>>

\* Another program adds a student row to the file and saves it.
ExternalStudent ==
    /\ disk /= NoWb
    /\ \E n \in 1..MaxSerial :
           LET student_id == Text(student_id_prefix \o Format04d(n))
               ws == disk[STUDENTS_SHEET]
           IN  /\ _find_row_by_id(ws, "student_id", student_id) = 0
               /\ Len(ws) <= MaxPeople
               /\ disk' = [disk EXCEPT ![STUDENTS_SHEET] =
                              AppendRow(ws, <<Str(student_id), Str("Eve"), None, None, None,
                                              None, None, None, None, None>>)]
    /\ ui' = [ui EXCEPT !.mtime_seen = FALSE]
    /\ last' = Outcome("external_edit", << >>, None, "none", FALSE)
    /\ UNCHANGED <<wb, clock, locked>>

\* The add handlers of the three front-ends while saves can fail.
NextUiFail ==
    \/ Lock
    \/ Unlock
    \/ TkAddStudent
    \/ WxAddStudent
    \/ QtAddStudentOpen
    \/ QtAddStudentAccept
    \/ ListStudents

SpecUiFail == InitLog /\ [][NextUiFail]_vars

\* The Qt front-end with its timer, next to another program that writes
\* the file.
NextTick ==
    \/ QtTick
    \/ ExternalStudent
    \/ QtAddStudentOpen
    \/ QtAddStudentAccept
    \/ ListStudents

\* The timer fires again and again (QTimer, 800 ms).
SpecTickFair == InitLog /\ [][NextTick]_vars /\ WF_vars(QtTick)

\* tk add_teacher_custom_field / remove_teacher_custom_field followed by
\* save_settings(rebuild_workbook=True): the list gains or loses a name,
\* ensure_workbook is called with the lists, the event is emitted; the
\* except branch logs.
TkSaveSettings ==
    \E fields \in CustomFieldLists :
        LET w1 == EnsuredWorkbook(disk, StudentCustomFields, fields)
            w2 == add_event(w1, AppEvent(Iso(clock), "save_settings", "settings", "local",
                                         "updated settings.json"))
        IN  /\ Len(fields) /= Len(ui.teacher_custom_fields)
            /\ DataRowCount(w2, ACTIVITY_SHEET) <= MaxEvents
            /\ disk' = FileAfterSave(w2)
            /\ wb' = IF locked THEN wb ELSE w2
            /\ ui' = [UiAfterSave EXCEPT !.teacher_custom_fields = fields]
            /\ last' = Outcome("tk_save_settings", <<fields>>, Handled(locked, FALSE),
                               SaveOutcome, FALSE)
            /\ UNCHANGED <<clock, locked>>

\* Qt save_settings: the settings of the page are saved and taken over;
\* when the set of custom fields changed, self.store.ensure_workbook() is
\* called without its two arguments, which raises TypeError, and the
\* except branch logs and shows it; else the event is emitted, the cache
\* dropped and everything refreshed.
QtSaveSettings ==
    \E fields \in CustomFieldLists :
        LET changed == {fields[i] : i \in 1..Len(fields)}
                           /= {ui.teacher_custom_fields[i] : i \in 1..Len(ui.teacher_custom_fields)}
            w1 == add_event(Loaded, AppEvent(Iso(clock), "update_settings", "settings", "",
                                             "saved"))
        IN  /\ CanLoad
            /\ IF changed
               THEN /\ ui' = [ui EXCEPT !.teacher_custom_fields = fields]
                    /\ last' = Outcome("qt_save_settings", <<fields>>, Handled(TRUE, TRUE),
                                       "none", FALSE)
                    /\ UNCHANGED <<disk, wb>>
               ELSE /\ DataRowCount(w1, ACTIVITY_SHEET) <= MaxEvents
                    /\ disk' = FileAfterSave(w1)
                    /\ wb' = IF locked THEN w1 ELSE SavedWorkbook(w1)
                    /\ ui' = [UiAfterSave EXCEPT !.teacher_custom_fields = fields]
                    /\ last' = Outcome("qt_save_settings", <<fields>>, Handled(locked, locked),
                                       SaveOutcome, FALSE)
            /\ UNCHANGED <<clock, locked>>

\* What the teacher dialog returns: its entries, and one for every custom
\* field of the settings.
CustomData ==
    [teacher_id |-> Str("T1"), first_name |-> Str("Tom"), last_name |-> Str(""),
     role |-> Str(""), primary_contact |-> Str(""), secondary_contact |-> Str("")]
        @@ [f \in {ui.teacher_custom_fields[i] : i \in 1..Len(ui.teacher_custom_fields)} |->
                Str("chess")]

\* The add or edit of a teacher with the dialog's data.
UpsertCustom == UpsertTeacherOf({CustomData})

\* The settings pages of tk and Qt next to the teacher operations.
NextSettings ==
    \/ TkSaveSettings
    \/ QtSaveSettings
    \/ UpsertCustom
    \/ DeleteTeacher
    \/ ListTeachers
    \/ InvalidateCache

SpecSettings == InitLog /\ [][NextSettings]_vars

\* The IDs the add flows hand out.
AddedIds == {Text(student_id_prefix \o Format04d(n)) : n \in 1..MaxSerial}

\* delete_student of the store for an ID the add flows hand out, while no
\* dialog is open.
DeleteAdded ==
    /\ ui.dialog = NoDialog
    /\ DeleteStudentOf(AddedIds)

\* set_payment of the store for a student of the list.
PayAdded ==
    /\ ui.dialog = NoDialog
    /\ CanLoad
    /\ SetPaymentOf({<<"student", id, 2026, 1>> :
                         id \in {a \in AddedIds :
                                     _find_row_by_id(Loaded[STUDENTS_SHEET], "student_id", a) /= 0}},
                    {<<"Paid", 500>>})

\* The add flows of tk and Qt next to delete and set_payment.
NextAdd ==
    \/ TkAddStudent
    \/ QtAddStudentOpen
    \/ QtAddStudentAccept
    \/ DeleteAdded
    \/ PayAdded

SpecAdd == InitLog /\ [][NextAdd]_vars

\* Another program empties the cells of a student payment row of the file
\* that has rows below it, and saves the file.
ExternalClear ==
    /\ disk /= NoWb
    /\ \E r \in 2..(Len(disk[STUDENT_PAYMENTS_SHEET]) - 1) :
           LET ws == disk[STUDENT_PAYMENTS_SHEET]
           IN  /\ \E c \in 1..Len(ws[r]) : ws[r][c] /= None
               /\ disk' = [disk EXCEPT ![STUDENT_PAYMENTS_SHEET] =
                              [ws EXCEPT ![r] = [c \in 1..Len(ws[r]) |-> None]]]
    /\ ui' = [ui EXCEPT !.mtime_seen = FALSE]
    /\ last' = Outcome("external_edit", << >>, None, "none", FALSE)
    /\ UNCHANGED <<wb, clock, locked>>

\* The payment ledger next to another program that empties rows of the
\* file.
NextGap ==
    \/ SetPayment
    \/ ExternalClear
    \/ InvalidateCache
    \/ GetPaymentRecord

SpecGap == InitLedger /\ [][NextGap]_vars

(***************************************************************************)
(* Properties of the Students and Teachers tables.                         *)
(***************************************************************************)
UpsertOp(entity) == IF entity = "student" THEN "upsert_student" ELSE "upsert_teacher"

DeleteOp(entity) == IF entity = "student" THEN "delete_student" ELSE "delete_teacher"

\* The least element of a non-empty set of row numbers.
MinOf(S) == CHOOSE x \in S : \A y \in S : x <= y

\* The rows below the header whose ID cell (column 1) holds the string id.
RowsWithId(ws, id) == {r \in 2..Len(ws) : ws[r][1] = Str(id)}

\* No two rows below the header hold the same ID cell.
NoSharedId(ws) == \A r1, r2 \in 2..Len(ws) : r1 /= r2 => ws[r1][1] /= ws[r2][1]

\* C1 as stated: after any sequence of upsert and delete calls (and
\* reloads), no two rows of the Students table and no two rows of the
\* Teachers table have the same ID cell.
C1_NoSharedId ==
    \A w \in {wb, disk} :
        w /= NoWb => NoSharedId(w[STUDENTS_SHEET]) /\ NoSharedId(w[TEACHERS_SHEET])

\* No two rows below the header hold the same non-empty ID; rows whose ID
\* cell is empty (None after a reload) may repeat.
UniqueIds(ws) ==
    \A r1, r2 \in 2..Len(ws) : (r1 /= r2 /\ ws[r1][1] = ws[r2][1]) => ws[r1][1] = None

\* C1 (amended): after any sequence of upsert and delete calls (and
\* reloads), no two rows of the Students table and no two rows of the
\* Teachers table share a non-empty ID, in the cached workbook and in the
\* file.
C1_UniqueIds ==
    \A w \in {wb, disk} :
        w /= NoWb => UniqueIds(w[STUDENTS_SHEET]) /\ UniqueIds(w[TEACHERS_SHEET])

\* An upsert of S1 found the row of S1 (above the row of S2) and updated it.
C1_Witness ==
    /\ last.op = "upsert_student"
    /\ ~last.raised
    /\ last.args = <<[student_id |-> Str("S1"), first_name |-> Str("Ann")]>>
    /\ Len(wb[STUDENTS_SHEET]) = 3
    /\ wb[STUDENTS_SHEET][2][1] = Str("S1")
    /\ wb[STUDENTS_SHEET][3][1] = Str("S2")

\* The records a list call returns for the ID the fields mapping names.
ListedWithId(w, entity, data) ==
    LET recs == _sheet_to_dicts(w[PeopleSheet(entity)])
    IN  {i \in 1..Len(recs) :
            Get(recs[i], Str(IdCol(entity)), None) = Get(data, IdCol(entity), Str(""))}

\* The keys of a fields mapping that upsert stores: the columns of the
\* table other than the two timestamps.
StoredKeys(w, entity, data) ==
    {key \in DOMAIN data :
        /\ Contains(w[PeopleSheet(entity)][1], Str(key))
        /\ key \notin {"created_at", "updated_at"}}

\* C2 as stated: after upsert(fields), the list holds exactly one record
\* with the supplied ID and that record equals fields on every key of fields.
C2_AllKeys ==
    \A e \in Entities :
        (last.op = UpsertOp(e) /\ ~last.raised) =>
            LET data == last.args[1]
                recs == _sheet_to_dicts(wb[PeopleSheet(e)])
                hits == ListedWithId(wb, e, data)
            IN  /\ Cardinality(hits) = 1
                /\ \A i \in hits, key \in DOMAIN data :
                       Str(key) \in DOMAIN recs[i] /\ recs[i][Str(key)] = data[key]

\* C2 (amended): after upsert(fields), the list holds exactly one record
\* with the supplied ID and that record equals fields on every key of
\* fields that is a column of the table other than created_at and updated_at.
C2_RoundTrip ==
    \A e \in Entities :
        (last.op = UpsertOp(e) /\ ~last.raised) =>
            LET data == last.args[1]
                recs == _sheet_to_dicts(wb[PeopleSheet(e)])
                hits == ListedWithId(wb, e, data)
            IN  /\ Cardinality(hits) = 1
                /\ \A i \in hits, key \in StoredKeys(wb, e, data) :
                       Str(key) \in DOMAIN recs[i] /\ recs[i][Str(key)] = data[key]

\* An upsert has stored class "5" for S1 from a mapping that also carries
\* created_at and a key that is no column.
C2_Witness ==
    /\ last.op = "upsert_student"
    /\ ~last.raised
    /\ "nickname" \in DOMAIN last.args[1]
    /\ \E i \in ListedWithId(wb, "student", last.args[1]) :
           _sheet_to_dicts(wb[STUDENTS_SHEET])[i][Str("class")] = Str("5")

\* One step of upsert on an ID that is in the table: rows other than the
\* first row with that ID, and in that row created_at and every column
\* that is no key of fields (except updated_at), are as before; so are
\* the other sheets.
C3_Step(e) ==
    (last'.op = UpsertOp(e) /\ CanLoad) =>
        LET data == last'.args[1]
            pre  == Loaded[PeopleSheet(e)]
            post == wb'[PeopleSheet(e)]
            hits == RowsWithId(pre, PyStr(Get(data, IdCol(e), Str(""))))
            r    == MinOf(hits)
        IN  hits /= {} =>
                /\ Len(post) = Len(pre)
                /\ \A r2 \in 1..Len(pre) : r2 /= r => post[r2] = pre[r2]
                /\ Len(post[r]) = Len(pre[r])
                /\ \A c \in 1..Len(pre[r]) :
                       (\/ pre[1][c] = Str("created_at")
                        \/ (pre[1][c].s \notin DOMAIN data /\ pre[1][c] /= Str("updated_at")))
                           => post[r][c] = pre[r][c]
                /\ \A sh \in DOMAIN Loaded \ {PeopleSheet(e)} : wb'[sh] = Loaded[sh]

\* C3: upsert on an existing ID is a partial update that leaves every
\* unsupplied column, created_at and every other row unchanged.
C3_PartialUpdate == [][\A e \in Entities : C3_Step(e)]_vars

\* A partial edit of S1 (class only) has kept its first name, next to S2.
C3_Witness ==
    /\ last.op = "upsert_student"
    /\ ~last.raised
    /\ "class" \in DOMAIN last.args[1]
    /\ Len(wb[STUDENTS_SHEET]) = 3
    /\ \E r \in 2..3 :
           /\ wb[STUDENTS_SHEET][r][1] = Str("S1")
           /\ wb[STUDENTS_SHEET][r][2] = Str("Ann")
           /\ wb[STUDENTS_SHEET][r][5] = Str("5")

\* The rows of seq whose ID cell differs from the string id.
RECURSIVE WithoutId(_, _)
WithoutId(seq, id) ==
    IF seq = << >> THEN << >>
    ELSE IF Head(seq)[1] = Str(id) THEN WithoutId(Tail(seq), id)
         ELSE <<Head(seq)>> \o WithoutId(Tail(seq), id)

\* One step of delete(id).
C5_Step(e) ==
    (last'.op = DeleteOp(e) /\ CanLoad) =>
        LET id   == last'.args[1]
            pre  == Loaded[PeopleSheet(e)]
            post == wb'[PeopleSheet(e)]
        IN  IF RowsWithId(pre, id) = {}
            THEN /\ last'.ret = FALSE
                 /\ ~last'.raised
                 /\ last'.saved = "none"
                 /\ disk' = disk
                 /\ wb' = Loaded
            ELSE /\ ~last'.raised => last'.ret = TRUE
                 /\ last'.saved /= "none"
                 /\ RowsWithId(post, id) = {}
                 /\ \A i \in DOMAIN _sheet_to_dicts(post) :
                        Get(_sheet_to_dicts(post)[i], Str(IdCol(e)), None) /= Str(id)
                 /\ post = WithoutId(pre, id)

\* C5: delete of an ID that is in no row returns false, does not save and
\* changes nothing; delete of an ID that is in the table returns true,
\* no listed record has the ID afterwards and all other rows remain.
C5_Delete == [][\A e \in Entities : C5_Step(e)]_vars

\* S1 has been deleted and S2 is still there.
C5_Witness ==
    /\ last.op = "delete_student"
    /\ ~last.raised
    /\ last.args = <<"S1">>
    /\ last.ret = TRUE
    /\ Len(wb[STUDENTS_SHEET]) = 2
    /\ wb[STUDENTS_SHEET][2][1] = Str("S2")

(***************************************************************************)
(* Timestamps (checked on the Teachers table while the clock advances).    *)
(***************************************************************************)
\* The column of sheet ws whose header is name.
ColIndex(ws, name) == CHOOSE c \in 1..Len(ws[1]) : ws[1][c] = Str(name)

\* The workbook a list call would read, given the cache and the file.
LoadedOf(cache, file) == IF cache /= NoWb THEN cache ELSE file

\* One step, seen through two listings of the Teachers table: a record
\* listed before and after has the same created_at and no smaller
\* updated_at; a record an upsert inserts is stamped with the clock reading
\* in both columns.
C4_Step ==
    (CanLoad /\ LoadedOf(wb', disk') /= NoWb) =>
        LET pre  == Loaded[TEACHERS_SHEET]
            post == LoadedOf(wb', disk')[TEACHERS_SHEET]
            cc   == ColIndex(post, "created_at")
            uc   == ColIndex(post, "updated_at")
        IN  /\ \A r1 \in 2..Len(pre), r2 \in 2..Len(post) :
                   pre[r1][1] = post[r2][1] =>
                       /\ post[r2][cc] = pre[r1][cc]
                       /\ ParseIso(post[r2][uc]) >= ParseIso(pre[r1][uc])
            /\ (last'.op = "upsert_teacher" /\ Len(post) > Len(pre)) =>
                   /\ post[Len(post)][cc] = Iso(clock)
                   /\ post[Len(post)][uc] = post[Len(post)][cc]

\* C4: created_at of a record stays the insertion timestamp in every
\* listing, updated_at never decreases from one listing to the next, and
\* on insertion both are equal.
C4_Timestamps == [][C4_Step]_vars

\* T1 was inserted at time 0 and updated at time 1.
C4_Witness ==
    /\ last.op = "upsert_teacher"
    /\ ~last.raised
    /\ \E r \in 2..Len(wb[TEACHERS_SHEET]) :
           /\ wb[TEACHERS_SHEET][r][1] = Str("T1")
           /\ wb[TEACHERS_SHEET][r][7] = Iso(0)
           /\ wb[TEACHERS_SHEET][r][8] = Iso(1)

(***************************************************************************)
(* Properties of the payment ledger.                                       *)
(***************************************************************************)
\* The rows below the header of the payment sheet of entity that hold the
\* composite key (person_id, year, month).
KeyRows(w, entity, person_id, year, month) ==
    LET ws == w[PaymentSheet(entity)]
    IN  {r \in 2..Len(ws) :
            /\ ws[r][ColIndex(ws, IdCol(entity))] = Str(person_id)
            /\ ws[r][ColIndex(ws, "year")] = Num(year)
            /\ ws[r][ColIndex(ws, "month")] = Num(month)}

\* The status and amount get_payment_record reports for key k.
Reported(w, k) ==
    LET rec == get_payment_record(w, k[1], k[2], k[3], k[4])
    IN  <<rec[Str("status")], rec[Str("amount")]>>

\* One step: every key has at most one row afterwards; the key a
\* set_payment was made for reports that call's status and amount, and
\* every other key, and every key after any other step, reports what it
\* reported before.
C6_Step ==
    LET post == LoadedOf(wb', disk')
    IN  \A k \in PaymentKeys :
            /\ Cardinality(KeyRows(post, k[1], k[2], k[3], k[4])) <= 1
            /\ IF /\ last'.op = "set_payment"
                  /\ ~last'.raised
                  /\ SubSeq(last'.args, 1, 4) = k
               THEN Reported(post, k) = <<Str(last'.args[5]), Num(last'.args[6])>>
               ELSE Reported(post, k) = Reported(Loaded, k)

\* C6: each composite key has at most one row and get_payment_record
\* returns the status and amount of the most recent set_payment on the key.
C6_LastWriteWins == [][C6_Step]_vars

\* S1's record for 2026-01, the first row of the sheet, has been set again
\* (to Pending, 500) after a second row was added, and is still one row.
C6_Witness ==
    /\ last.op = "set_payment"
    /\ ~last.raised
    /\ last.args = <<"student", "S1", 2026, 1, "Pending", 500>>
    /\ Len(wb[STUDENT_PAYMENTS_SHEET]) = 3
    /\ KeyRows(wb, "student", "S1", 2026, 1) = {2}
    /\ Reported(wb, <<"student", "S1", 2026, 1>>) = <<Str("Pending"), Num(500)>>

\* One step of set_payment for key k: the other sheets are as before; if k
\* has a row, only status, amount and updated_at of that row may differ;
\* if it has none, one row is added below the rows that were there.
C7_Step ==
    (last'.op = "set_payment" /\ ~last'.raised) =>
        LET a    == last'.args
            sh   == PaymentSheet(a[1])
            pre  == Loaded[sh]
            post == wb'[sh]
            hits == KeyRows(Loaded, a[1], a[2], a[3], a[4])
        IN  /\ \A other \in DOMAIN Loaded \ {sh} : wb'[other] = Loaded[other]
            /\ IF hits = {}
               THEN /\ Len(post) = Len(pre) + 1
                    /\ SubSeq(post, 1, Len(pre)) = pre
               ELSE /\ Len(post) = Len(pre)
                    /\ \A r \in 1..Len(pre) :
                           IF r \in hits
                           THEN /\ Len(post[r]) = Len(pre[r])
                                /\ \A c \in 1..Len(pre[r]) :
                                       pre[1][c] \notin {Str("status"), Str("amount"),
                                                         Str("updated_at")}
                                           => post[r][c] = pre[r][c]
                           ELSE post[r] = pre[r]

C8_Step ==
    (last'.op \in {"get_payment_record", "get_payment_status"} /\ ~last'.raised) =>
        LET k == last'.args
        IN  /\ disk' = disk
            /\ wb' = Loaded
            /\ last'.saved = "none"
            /\ KeyRows(Loaded, k[1], k[2], k[3], k[4]) = {} =>
                   IF last'.op = "get_payment_record"
                   THEN /\ last'.ret[Str("status")] = Str("Pending")
                        /\ last'.ret[Str("amount")] = Num(0)
                   ELSE last'.ret = "Pending"

\* C8: without a stored record get_payment_record returns Pending and 0 and
\* get_payment_status returns "Pending"; both calls add no row and save
\* nothing.
C8_ReadOnlyDefault == [][C8_Step]_vars

\* The teacher's status was asked for while only a student record exists.
C8_Witness ==
    /\ last.op = "get_payment_status"
    /\ ~last.raised
    /\ last.args = <<"teacher", "T1", 2026, 1>>
    /\ last.ret = "Pending"
    /\ Len(wb[TEACHER_PAYMENTS_SHEET]) = 1
    /\ Len(wb[STUDENT_PAYMENTS_SHEET]) = 2

\* C9: payment_stats returns paid + pending = total = the number of records
\* list_students / list_teachers returns.
C9_StatsTotal ==
    (last.op = "payment_stats" /\ ~last.raised) =>
        /\ last.ret.paid + last.ret.pending = last.ret.total
        /\ last.ret.total =
               Len(IF last.args[1] = "student" THEN list_students(wb) ELSE list_teachers(wb))

\* The position of a month on the calendar, counted in months.
MonthIndex(year, month) == year * 12 + month - 1

\* C10: for a person without payment records get_pending_months returns 24
\* entries, consecutive months in increasing order that end at the month
\* asked for and start 23 months earlier, every month within 1..12 and
\* every amount the default amount.
C10_FullWindow ==
    (/\ last.op = "get_pending_months"
     /\ ~last.raised
     /\ \A r \in 2..Len(wb[PaymentSheet(last.args[1])]) :
            wb[PaymentSheet(last.args[1])][r][1] /= Str(last.args[2])) =>
        LET res == last.ret
            a   == last.args
        IN  /\ Len(res) = 24
            /\ res[24].year = a[3] /\ res[24].month = a[4]
            /\ MonthIndex(res[1].year, res[1].month) = MonthIndex(a[3], a[4]) - 23
            /\ \A i \in 1..23 :
                   MonthIndex(res[i + 1].year, res[i + 1].month)
                       = MonthIndex(res[i].year, res[i].month) + 1
            /\ \A i \in 1..24 : res[i].month \in 1..12 /\ res[i].amount = a[5]

\* The window of T1, who has no record, was asked for up to January 2026
\* while S1 has a paid month: it starts in February 2024.
C10_Witness ==
    /\ last.op = "get_pending_months"
    /\ ~last.raised
    /\ last.args = <<"teacher", "T1", 2026, 1, 100>>
    /\ Len(wb[STUDENT_PAYMENTS_SHEET]) = 2
    /\ Len(wb[TEACHER_PAYMENTS_SHEET]) = 1
    /\ Len(last.ret) = 24
    /\ last.ret[1] = [year |-> 2024, month |-> 2, amount |-> 100]

\* (year, month) lies in the 24-month window that ends at (up_to_year,
\* up_to_month).
InWindow(year, month, up_to_year, up_to_month) ==
    /\ MonthIndex(year, month) <= MonthIndex(up_to_year, up_to_month)
    /\ MonthIndex(year, month) >= MonthIndex(up_to_year, up_to_month) - 23

\* The value in column name of row r of the payment sheet of entity.
PaymentCell(w, entity, r, name) ==
    w[PaymentSheet(entity)][r][ColIndex(w[PaymentSheet(entity)], name)]

\* C11: get_pending_months lists a month exactly when it lies in the window
\* and the person has no record for it or a record whose status is not
\* Paid; the amount listed is the record's amount when that is above 0 and
\* the default amount otherwise.
C11_PendingMonths ==
    (last.op = "get_pending_months" /\ ~last.raised) =>
        LET a   == last.args
            res == last.ret
        IN  /\ \A i \in 1..Len(res) : res[i].year \in 2022..2027 /\ res[i].month \in Months
            /\ \A y \in 2022..2027, m \in Months :
                   LET rows    == KeyRows(wb, a[1], a[2], y, m)
                       entries == {i \in 1..Len(res) : res[i].year = y /\ res[i].month = m}
                       unpaid  == \A r \in rows : PaymentCell(wb, a[1], r, "status") /= Str("Paid")
                   IN  /\ Cardinality(entries) <= 1
                       /\ entries /= {} <=> (InWindow(y, m, a[3], a[4]) /\ unpaid)
                       /\ \A i \in entries :
                              res[i].amount =
                                  IF \E r \in rows : PaymentCell(wb, a[1], r, "amount").n > 0
                                  THEN PaymentCell(wb, a[1], MinOf(rows), "amount").n
                                  ELSE a[5]

\* S1, with January 2026 paid and December 2025 pending at amount 0, was
\* asked for up to January 2026: 23 months, the last one December 2025 at
\* the default amount.
C11_Witness ==
    /\ last.op = "get_pending_months"
    /\ ~last.raised
    /\ last.args = <<"student", "S1", 2026, 1, 250>>
    /\ KeyRows(wb, "student", "S1", 2026, 1) /= {}
    /\ KeyRows(wb, "student", "S1", 2025, 12) /= {}
    /\ Len(last.ret) = 23
    /\ last.ret[23] = [year |-> 2025, month |-> 12, amount |-> 250]

(***************************************************************************)
(* Properties of the ID generator.                                         *)
(***************************************************************************)
NextIdOps == {"tk_next_id", "qt_next_id", "wx_next_id"}

\* The longest run of digits at the start of tail.
RECURSIVE LeadingDigits(_)
LeadingDigits(tail) ==
    IF Len(tail) = 0 \/ ~IsDigit(tail[1]) THEN << >>
    ELSE <<tail[1]>> \o LeadingDigits(Tail(tail))

\* The numbers the IDs that start with prefix carry right after it.
LeadingNumbers(prefix, existing_ids) ==
    {IntOfDigits(LeadingDigits(TailOf(existing_ids[i], prefix))) :
        i \in {j \in 1..Len(existing_ids) :
                  /\ StartsWith(existing_ids[j], prefix)
                  /\ LeadingDigits(TailOf(existing_ids[j], prefix)) /= << >>}}

\* The greatest element of a set of naturals, 0 for the empty set.
MaxOf(S) == IF S = {} THEN 0 ELSE CHOOSE x \in S : \A y \in S : y <= x

\* C12: each _next_id returns the prefix followed by one more than the
\* greatest number that follows the prefix in an existing ID (the longest
\* run of digits right after the prefix; 0 if there is none), padded with
\* zeros to four digits.
C12_NextId ==
    (last.op \in NextIdOps) =>
        last.ret = last.args[1] \o Format04d(MaxOf(LeadingNumbers(last.args[1], last.args[2])) + 1)

\* C13: the ID a _next_id variant returns is none of the existing IDs.
C13_FreshId ==
    (last.op \in NextIdOps) =>
        \A i \in 1..Len(last.args[2]) : last.args[2][i] /= last.ret

\* The Qt variant was given S-9999 and an ID that mixes digits and letters
\* and returned S-10000.
C13_Witness ==
    /\ last.op = "qt_next_id"
    /\ last.args = <<<<"S", "-">>, <<<<"S", "-", "9", "9", "9", "9">>, <<"S", "-", "x", "7">>>>>>
    /\ last.ret = <<"S", "-", "1", "0", "0", "0", "0">>

(***************************************************************************)
(* Properties of the activity log.                                         *)
(***************************************************************************)
\* The log: the events list_events returns when the limit does not cut.
LogOf(w) == _sheet_to_dicts(w[ACTIVITY_SHEET])

\* C14: list_events(limit = N) on a log of M > N events returns exactly N
\* events, the N most recently appended ones in the order they were appended.
C14_LastN ==
    (last.op = "list_events" /\ ~last.raised /\ Len(LogOf(wb)) > last.args[1]) =>
        /\ Len(last.ret) = last.args[1]
        /\ last.ret = SubSeq(LogOf(wb), Len(LogOf(wb)) - last.args[1] + 1, Len(LogOf(wb)))

\* The mapping list_events returns for an event that was just appended.
EventDict(event) ==
    [h \in {ActivityColumns[i] : i \in 1..Len(ActivityColumns)} |->
        CASE h = "timestamp" -> event.timestamp
          [] h = "action" -> Str(event.action)
          [] h = "entity_type" -> Str(event.entity_type)
          [] h = "entity_id" -> Str(event.entity_id)
          [] OTHER -> Str(event.details)]

\* The operations C15 is about.
LogFrameOps ==
    {"upsert_teacher", "delete_teacher", "list_teachers", "set_payment",
     "get_payment_status", "add_event", "list_events"}

\* One step of one of these operations: add_event puts its event at the end
\* of the log, every other operation leaves the log as it was.
C15_Step ==
    (last'.op \in LogFrameOps /\ CanLoad) =>
        IF last'.op = "add_event"
        THEN /\ Len(LogOf(wb')) = Len(LogOf(Loaded)) + 1
             /\ SubSeq(LogOf(wb'), 1, Len(LogOf(Loaded))) = LogOf(Loaded)
             /\ \A h \in DOMAIN EventDict(last'.args[1]) :
                    LogOf(wb')[Len(LogOf(wb'))][Str(h)] = EventDict(last'.args[1])[h]
        ELSE LogOf(wb') = LogOf(Loaded)

\* C15: the activity log is append-only: add_event extends it by one event
\* at the end, every other operation except ensure_workbook leaves it as it
\* was.
C15_AppendOnly == [][C15_Step]_vars

\* A second event was appended while the teacher and a payment exist, and
\* the first event is still the first.
C15_Witness ==
    /\ last.op = "add_event"
    /\ ~last.raised
    /\ Len(LogOf(wb)) = 2
    /\ LogOf(wb)[1][Str("action")] = Str("add_teacher")
    /\ LogOf(wb)[2][Str("action")] = Str("delete_teacher")
    /\ Len(wb[TEACHERS_SHEET]) = 2
    /\ Len(wb[TEACHER_PAYMENTS_SHEET]) = 2

(***************************************************************************)
(* Properties of failing saves.                                            *)
(***************************************************************************)
MutatingOps == {"upsert_teacher", "delete_teacher", "set_payment", "add_event"}

\* C16: when the save of a mutating operation fails, the cached workbook
\* afterwards is the workbook the operation loaded, and it still matches
\* the file.
C16_FailedSaveKeepsCache ==
    [][(last'.op \in MutatingOps /\ last'.saved = "failed") =>
           (wb' = Loaded /\ SavedWorkbook(wb') = disk')]_vars

ReadOps == {"list_students", "list_teachers", "get_payment_record", "list_events"}

\* What the read op(args) finds in the workbook file.
ReadFromFile(file, op, args) ==
    CASE op = "list_students" -> _sheet_to_dicts(file[STUDENTS_SHEET])
      [] op = "list_teachers" -> _sheet_to_dicts(file[TEACHERS_SHEET])
      [] op = "list_events" -> SliceFrom(_sheet_to_dicts(file[ACTIVITY_SHEET]), 0 - args[1])
      [] OTHER ->
            LET rows == KeyRows(file, args[1], args[2], args[3], args[4])
            IN  IF rows = {} THEN DefaultRecord
                ELSE RowDict(file[PaymentSheet(args[1])][1],
                             file[PaymentSheet(args[1])][MinOf(rows)])

\* One step: invalidate_cache leaves the file as it is; a read made right
\* after invalidate_cache returns what the file holds at that moment.
C18_Step ==
    /\ last'.op = "invalidate_cache" => disk' = disk
    /\ (last.op = "invalidate_cache" /\ last'.op \in ReadOps /\ ~last'.raised) =>
           /\ last'.ret = ReadFromFile(disk, last'.op, last'.args)
           /\ disk' = disk

\* C18: under any interleaving of store operations and external writes, a
\* read that directly follows invalidate_cache returns the content of the
\* file at that moment, and invalidate_cache does not change the file.
C18_FreshRead == [][C18_Step]_vars

\* The store had cached and saved teacher Tom; another program changed the
\* name to Eve; after invalidate_cache (the state before this one),
\* list_teachers returned Eve.
C18_Witness ==
    /\ last.op = "list_teachers"
    /\ ~last.raised
    /\ Len(last.ret) = 1
    /\ last.ret[1][Str("first_name")] = Str("Eve")
    /\ last.ret[1][Str("created_at")] = Iso(0)
    /\ wb = disk


(***************************************************************************)
(* Schema repair properties.                                               *)
(***************************************************************************)
\* The header a sheet of file has: its first row, without the empty cells.
HeaderNames(file, sh) ==
    IF Len(file[sh]) = 0 THEN << >> ELSE SelectSeq(file[sh][1], LAMBDA v : v /= None)

NoNameTwice(names) == \A i, j \in 1..Len(names) : names[i] = names[j] => i = j

\* Every sheet of file is there and its first row is the required header.
ValidDocument(file, lists) ==
    \A sh \in SheetNames :
        /\ sh \in DOMAIN file
        /\ Len(file[sh]) >= 1
        /\ file[sh][1] = RequiredHeaders(sh, lists[1], lists[2])

\* The data rows of a sheet: the rows below the first that are neither
\* entirely empty nor a copy of the first row.
RecordRows(ws) ==
    SelectSeq(SubSeq(ws, 2, Len(ws)), LAMBDA r : ~AllNone(r) /\ r /= ws[1])

\* A second ensure_workbook with the same lists changes nothing.
C19_Twice ==
    (last.op = "ensure_workbook" /\ last'.op = "ensure_workbook" /\ last'.args = last.args) =>
        (disk' = disk /\ wb' = wb)

\* No header ensure_workbook leaves holds a name twice.
C19_Headers ==
    last'.op = "ensure_workbook" =>
        \A sh \in SheetNames : NoNameTwice(HeaderNames(disk', sh))

\* ensure_workbook keeps the data rows of a valid document.
C19_Valid ==
    (last'.op = "ensure_workbook" /\ ValidDocument(disk, last'.args)) =>
        \A sh \in SheetNames : RecordRows(disk'[sh]) = RecordRows(disk[sh])

C19_Step == C19_Twice /\ C19_Headers /\ C19_Valid

\* C19: ensure_workbook is idempotent: whatever the file holds (missing
\* sheets, blank first row, header one row too low, partial header,
\* duplicated header rows, blank rows), a second call with the same custom
\* field lists leaves the sheets as the first call left them, no header
\* holds a column name twice, and the data rows of a valid document are
\* unchanged.
C19_Idempotent == [][C19_Step]_vars



\* The names of headers that seq lacks, each once, in the order of headers.
RECURSIVE AbsentFrom(_, _, _)
AbsentFrom(seq, headers, i) ==
    IF i > Len(headers) THEN << >>
    ELSE IF Contains(seq, headers[i])
         THEN AbsentFrom(seq, headers, i + 1)
         ELSE <<headers[i]>> \o AbsentFrom(Append(seq, headers[i]), headers, i + 1)

\* The first row of ws is not blank and is not the required list.
HeaderDiffers(ws, headers) ==
    /\ Len(ws) >= 1
    /\ ~AllNone(RowValues(ws, 1))
    /\ RowValues(ws, 1) /= headers

\* What C20 says of the sheet "out" that _ensure_sheet_headers makes of ws.
AppendedOnly(ws, out, headers) ==
    LET existing == RowValues(ws, 1)
    IN  /\ Len(out) = Len(ws)
        /\ RowPrefix(out, 1, Len(existing)) = existing
        /\ SubSeq(RowValues(out, 1), Len(existing) + 1, MaxColumn(out))
               = AbsentFrom(existing, headers, 1)
        /\ \A r \in 2..Len(ws) : out[r] = ws[r]
        /\ \A i \in 1..Len(headers) : Contains(RowValues(out, 1), headers[i])

C20_Step ==
    last'.op = "ensure_workbook" =>
        \A sh \in SheetNames \cap DOMAIN disk :
            LET headers == RequiredHeaders(sh, last'.args[1], last'.args[2])
            IN  HeaderDiffers(disk[sh], headers) =>
                    \A out \in {_ensure_sheet_headers(disk[sh], headers)} :
                        AppendedOnly(disk[sh], out, headers)

\* C20: when the first row of a sheet is not blank and differs from the
\* required columns, _ensure_sheet_headers keeps the existing first row as
\* a prefix of the new one, appends each required column that was absent
\* exactly once after the existing columns, in the order of the required
\* columns, and leaves every row below unchanged; afterwards every required
\* column is in the first row.
C20_AppendMissing == [][C20_Step]_vars

\* ensure_workbook met the Teachers sheet with the columns first_name,
\* teacher_id and left them first, the absent columns after them, the row
\* below as it was.
C20_Witness ==
    /\ last.op = "ensure_workbook"
    /\ last.args[2] = << >>
    /\ Len(disk[TEACHERS_SHEET]) = 2
    /\ disk[TEACHERS_SHEET][1] =
           <<Str("first_name"), Str("teacher_id"), Str("last_name"), Str("role"),
             Str("primary_contact"), Str("secondary_contact"), Str("created_at"),
             Str("updated_at")>>
    /\ disk[TEACHERS_SHEET][2] = <<Str("Tom"), Str("T1")>>


(***************************************************************************)
(* Records without ID.                                                     *)
(***************************************************************************)
\* C21: list_students() and list_teachers() never return a record whose
\* ID is empty or absent, whatever the sheets have come to hold (an upsert
\* whose data omits the ID or gives an empty one included).
C21_NoBlankIds ==
    (last.op \in {"list_students", "list_teachers"} /\ ~last.raised) =>
        \A i \in 1..Len(last.ret) :
            LET id_header == Str(IF last.op = "list_students" THEN "student_id" ELSE "teacher_id")
            IN  /\ id_header \in DOMAIN last.ret[i]
                /\ last.ret[i][id_header] \notin {None, Str("")}


(***************************************************************************)
(* Last writer wins.                                                       *)
(***************************************************************************)
\* The workbook the mutating call op(args) makes of workbook w at time t.
Applied(w, op, args, t) ==
    CASE op = "upsert_teacher" -> upsert_teacher(w, args[1], Iso(t))
      [] op = "delete_teacher" -> delete_teacher(w, args[1])
      [] op = "set_payment" ->
            set_payment(w, args[1], args[2], args[3], args[4], args[5], args[6], Iso(t))
      [] OTHER -> add_event(w, args[1])

\* file holds the teacher row another program typed or changed.
HoldsEve(file) ==
    \E r \in 2..Len(file[TEACHERS_SHEET]) : Cell(file[TEACHERS_SHEET], r, 2) = Str("Eve")

C22_Step ==
    (last.op = "external_edit" /\ wb /= NoWb /\ last'.op \in MutatingOps
        /\ last'.saved = "ok") =>
        /\ ~last'.raised
        /\ disk' = SavedWorkbook(Applied(wb, last'.op, last'.args, clock))
        /\ wb' = Applied(wb, last'.op, last'.args, clock)

\* C22: when another program has written the file after the store cached
\* the workbook and invalidate_cache is not called, the next mutating
\* call's save writes the cached workbook with the call's own change as
\* the whole file: what the other program wrote is gone, nothing is merged
\* and no error is raised.
C22_LastWriterWins == [][C22_Step]_vars

\* The file holds a teacher row of another program that the cached workbook
\* lacks, and the file an upsert_teacher made now would save lacks it too.
C22_Witness ==
    /\ last.op = "external_edit"
    /\ wb /= NoWb
    /\ HoldsEve(disk)
    /\ ~HoldsEve(wb)
    /\ \E data \in TeacherInputs :
           ~HoldsEve(FileAfterSave(upsert_teacher(Loaded, data, Iso(clock))))


(***************************************************************************)
(* Blank first row.                                                        *)
(***************************************************************************)
\* The cells of row r from column n + 1 on are empty.
NoneBeyond(ws, r, n) == \A c \in (n + 1)..MaxColumn(ws) : Cell(ws, r, c) = None

\* Row r holds the required list and nothing else.
RowIs(ws, r, headers) == RowPrefix(ws, r, Len(headers)) = headers /\ NoneBeyond(ws, r, Len(headers))

\* What _ensure_sheet_headers does to a sheet ws whose first row is blank,
\* given the test is_header that row 2 is the header and the test has_header
\* on the result: row 1 deleted or the list written into it, the rows of
\* data as they were.
BlankRepaired(ws, out, headers, is_header, has_header) ==
    /\ IF is_header
       THEN out = DeleteRow(ws, 1) /\ SubSeq(out, 2, Len(out)) = SubSeq(ws, 3, Len(ws))
       ELSE /\ RowPrefix(out, 1, Len(headers)) = headers
            /\ SubSeq(out, 2, Len(out)) = SubSeq(ws, 2, Len(ws))
    /\ has_header

C23_StepExact ==
    last'.op = "ensure_workbook" =>
        \A sh \in SheetNames \cap DOMAIN disk :
            LET headers == RequiredHeaders(sh, last'.args[1], last'.args[2])
                ws      == disk[sh]
            IN  AllNone(RowValues(ws, 1)) =>
                    \A out \in {_ensure_sheet_headers(ws, headers)} :
                        BlankRepaired(ws, out, headers,
                                      Len(ws) >= 2 /\ RowIs(ws, 2, headers),
                                      RowIs(out, 1, headers))

C23_StepPrefix ==
    last'.op = "ensure_workbook" =>
        \A sh \in SheetNames \cap DOMAIN disk :
            LET headers == RequiredHeaders(sh, last'.args[1], last'.args[2])
                ws      == disk[sh]
            IN  AllNone(RowValues(ws, 1)) =>
                    \A out \in {_ensure_sheet_headers(ws, headers)} :
                        BlankRepaired(ws, out, headers,
                                      Len(ws) >= 2 /\ RowPrefix(ws, 2, Len(headers)) = headers,
                                      RowPrefix(out, 1, Len(headers)) = headers)

\* C23: when the first row of a sheet is entirely blank, _ensure_sheet_headers
\* deletes row 1 if row 2 equals the required columns and writes the required
\* columns into row 1 otherwise; afterwards row 1 equals the required
\* columns and every row of data is there as before, in the same order.
C23_BlankFirstRow == [][C23_StepExact]_vars

\* C23 as the code has it: row 2 is the header when its first
\* len(required) cells are the required columns, and afterwards row 1 starts
\* with the required columns.
C23_BlankFirstRowPrefix == [][C23_StepPrefix]_vars

\* ensure_workbook met the Teachers header one row too low and with a column
\* more than required: the blank row is gone, the header and the row of
\* data are one row up.
C23_Witness ==
    /\ last.op = "ensure_workbook"
    /\ last.args[2] = << >>
    /\ Len(disk[TEACHERS_SHEET]) = 2
    /\ disk[TEACHERS_SHEET][1] = TeacherHeader \o <<Str("hobby")>>
    /\ disk[TEACHERS_SHEET][2] = TeacherRow("T1", "Tom") \o <<Str("chess")>>


(***************************************************************************)
(* Cleanup.                                                                *)
(***************************************************************************)
\* The rows of ws below the first that pass keep, in their order.
RowsBelow(ws, keep(_)) == SelectSeq(SubSeq(ws, 2, Len(ws)), keep)

\* What C24 says of the sheet "out" that _cleanup_sheet makes of ws, for a
\* test blank of a row being blank and a test copy of a row being a copy of
\* the header.
Cleaned(ws, out, blank(_), copy(_)) ==
    /\ \A r \in 2..Len(out) : ~blank(out[r]) /\ ~copy(out[r])
    /\ SubSeq(out, 2, Len(out)) = RowsBelow(ws, LAMBDA row : ~blank(row) /\ ~copy(row))
    /\ Len(ws) >= 1 => (Len(out) >= 1 /\ out[1] = ws[1])

\* A row without any value.
EntirelyBlank(row) == \A c \in 1..Len(row) : row[c] \in {None, Str("")}

\* A row whose first cells are the header values.
CopyOf(row, headers) ==
    [c \in 1..Len(headers) |-> IF c <= Len(row) THEN row[c] ELSE None] = headers

C24_Step ==
    last'.op = "ensure_workbook" =>
        \A sh \in SheetNames \cap DOMAIN disk :
            LET headers == RequiredHeaders(sh, last'.args[1], last'.args[2])
            IN  \A ws \in {_ensure_sheet_headers(disk[sh], headers)} :
                    \A out \in {_cleanup_sheet(ws, headers)} :
                        Cleaned(ws, out, EntirelyBlank, LAMBDA row : CopyOf(row, headers))

\* C24: after _cleanup_sheet(ws, headers) no row below the first is a copy
\* of the header values and none is entirely blank, adjacent ones included,
\* and every row that is neither is kept as it was, in the same order.
C24_Cleanup == [][C24_Step]_vars



(***************************************************************************)
(* Front-end properties.                                                   *)
(***************************************************************************)
AddHandlers == {"tk_add_student", "qt_add_student", "wx_add_student"}

\* C25: in every front-end, when the store raises on saving during an add,
\* edit or delete, the handler ends with the error shown to the user, not
\* only written to the error log.
C25_ErrorShown ==
    (last.op \in AddHandlers /\ last.saved = "failed") => last.ret.error_shown


\* One step of the timer: a modification time that is not the one seen last
\* is recorded, the cache is dropped and the refresh loads the file; with
\* the time seen last nothing changes.
C26_Step ==
    last'.op = "qt_tick" =>
        /\ disk' = disk
        /\ IF disk /= NoWb /\ ~ui.mtime_seen
           THEN ui'.mtime_seen /\ wb' = disk /\ last'.ret = TRUE
           ELSE ui' = ui /\ wb' = wb /\ last'.ret = FALSE

\* The timer dropped the cache.
Invalidated == last.op = "qt_tick" /\ last.ret = TRUE

\* C26: at every tick of the Qt timer, a modification time of the file that
\* differs from the one seen last is recorded and followed by
\* invalidate_cache and a full refresh, an equal one by nothing; with the
\* timer firing fairly, every change of the modification time is eventually
\* followed by a cache invalidation.
C26_Poll == [][C26_Step]_vars /\ (~ui.mtime_seen ~> Invalidated)

\* The timer has seen the time of a file another program wrote to: the
\* cached workbook holds that program's row.
C26_Witness ==
    /\ Invalidated
    /\ ui.mtime_seen
    /\ wb = disk
    /\ \E r \in 2..Len(wb[STUDENTS_SHEET]) : Cell(wb[STUDENTS_SHEET], r, 2) = Str("Eve")


SaveSettingsOps == {"tk_save_settings", "qt_save_settings"}

\* The names in the first row of the Teachers sheet of w.
TeacherColumnsOf(w) == {w[TEACHERS_SHEET][1][c] : c \in 1..Len(w[TEACHERS_SHEET][1])}

C27_Step ==
    /\ (last'.op \in SaveSettingsOps
            /\ ui'.teacher_custom_fields /= ui.teacher_custom_fields) =>
           \A i \in 1..Len(ui'.teacher_custom_fields) :
               /\ Str(ui'.teacher_custom_fields[i]) \in TeacherColumnsOf(disk')
               /\ Str(ui'.teacher_custom_fields[i]) \in TeacherColumnsOf(wb')
    /\ (last.op \in SaveSettingsOps /\ last'.op = "upsert_teacher" /\ ~last'.raised) =>
           \E j \in 1..Len(list_teachers(wb')) :
               \A key \in DOMAIN last'.args[1] :
                   /\ Str(key) \in DOMAIN list_teachers(wb')[j]
                   /\ list_teachers(wb')[j][Str(key)] = last'.args[1][key]

\* C27: in the tk and in the Qt front-end, when save-settings has run with a
\* changed custom field list, ensure_workbook has been applied with the new
\* lists: every configured custom field is a column of the Teachers sheet,
\* and an upsert made next with a value for the field has the value listed.
C27_CustomColumns == [][C27_Step]_vars


AddOps == {"tk_add_student", "qt_add_student"}

\* The ID of the add step that leads to the next state.
AddedId == PyStr(last'.args[1].student_id)

C28_Step ==
    (/\ last'.op \in AddOps
     /\ last'.saved = "ok"
     /\ _find_row_by_id(Loaded[STUDENTS_SHEET], "student_id", AddedId) = 0
     /\ _find_row_by_id(disk[STUDENTS_SHEET], "student_id", AddedId) = 0) =>
        /\ \A y \in Years, m \in Months :
               get_payment_status(wb', "student", AddedId, y, m) = "Pending"
        /\ Len(get_pending_months(wb', "student", AddedId, 2026, 1, 500)) = Window

\* C28: after any sequence of add, delete and set_payment, a student that
\* has just been added under an ID of _next_id has no payment record: the
\* status is Pending for every period and get_pending_months returns the
\* whole window of 24 months.
C28_NoInheritedPayments == [][C28_Step]_vars


\* The data rows of the Students sheet as they are stored.
StoredStudents(w) == SavedWorkbook(w)[STUDENTS_SHEET]

C30_Step ==
    (last'.op \in AddOps /\ last'.saved = "ok") =>
        /\ Len(StoredStudents(wb')) = Len(StoredStudents(Loaded)) + 1
        /\ \A r \in 1..Len(StoredStudents(Loaded)) :
               StoredStudents(wb')[r] = StoredStudents(Loaded)[r]

\* C30: the add-student flow (ID from _next_id over the current list, the
\* dialog, upsert_student) appends a record and changes none: the list the
\* application holds grows by exactly one row and its rows stay as they
\* are, also when the file was edited by another program and reloaded by
\* the Qt timer while the dialog was open, and when the ID is changed in
\* the tk dialog.
C30_AddAppends == [][C30_Step]_vars


C29_Step ==
    (/\ last'.op = "set_payment"
     /\ ~last'.raised
     /\ last'.saved = "ok"
     /\ RecordIndex(Loaded, last'.args[1], last'.args[2], last'.args[3], last'.args[4]) > 0) =>
        LET a    == last'.args
            ws   == Loaded[PaymentSheet(a[1])]
            out  == wb'[PaymentSheet(a[1])]
            keyed == KeyRows(Loaded, a[1], a[2], a[3], a[4])
        IN  /\ Len(out) = Len(ws)
            /\ \A r \in 1..Len(ws) : out[r] /= ws[r] => r \in keyed
            /\ \E r \in keyed :
                   /\ out[r][ColIndex(ws, "status")] = Str(a[5])
                   /\ out[r][ColIndex(ws, "amount")] = Num(a[6])

\* C29: in every state of a payment sheet, also with an entirely empty row
\* between data rows, the sheet row set_payment overwrites for an existing
\* composite key is the row whose key columns equal the key, and that row
\* gets the new status and amount.
C29_OverwritesKeyRow == [][C29_Step]_vars

====
